---- MODULE Spec2Model ----
(***************************************************************************)
(* A model of improved_diffusion/gaussian_diffusion.py: the diffusion      *)
(* engine (GaussianDiffusion), its lazily device-materialized parameter    *)
(* tables, the reverse process p_mean_variance, the ancestral / DDIM       *)
(* sampling loops and the memoized timestep index table ts_index_range.    *)
(*                                                                         *)
(* Tensors are modelled per batch element (one channel, no spatial         *)
(* dimensions): a batch is a sequence of integers.  Floating-point values  *)
(* are modelled as integers with exact arithmetic; non-finite floats are   *)
(* outside the model.  An ndarray / tensor is described by where it lives: *)
(* "ndarray" (numpy, host memory) or the name of the torch device.         *)
(***************************************************************************)
EXTENDS Integers, Sequences, FiniteSets, TLC

VARIABLES
    model_mean_type,   \* self.model_mean_type
    model_var_type,    \* self.model_var_type
    loss_type,         \* self.loss_type
    num_timesteps,     \* self.num_timesteps
    rescale_timesteps, \* self.rescale_timesteps
    tables,            \* the array attributes of self: name -> "ndarray" or the device of the tensor
    tensorized_for,    \* self.tensorized_for
    ext,               \* the last _extract_into_tensor / tensorize call and its outcome (SpecRace: the frame of each caller's call)
    ts_cache,          \* the lru_cache of _ts_index_range: its entries, most recently used first
    ts_builds,         \* how many times the body of _ts_index_range ran, per key
    ts_ret,            \* the last ts_index_range call and what it returned
    caller,            \* the arguments the caller of the engine passes: model, x, model_kwargs, ...
    pc,                \* where the caller is
    res,               \* the last p_mean_variance / p_sample / sample-loop call and its outcome
    gen                \* the generator a progressive sampler returned: its frame

config_vars ==
    <<model_mean_type, model_var_type, loss_type, num_timesteps, rescale_timesteps>>
engine_vars == <<config_vars, tables, tensorized_for>>
ts_vars == <<ts_cache, ts_builds, ts_ret>>
call_vars == <<caller, pc, res, gen>>

vars == <<engine_vars, ext, ts_vars, call_vars>>

----------------------------------------------------------------------------
(* Bounds of the model *)

\* the engines have 2..MaxT timesteps
MaxT == 2
\* number of elements in a batch
BatchSize == 2
\* how many times the body of _ts_index_range may run in one behaviour
MaxTsBuilds == 4
\* the engines of the sampling loops have 2..MaxLoopT timesteps
MaxLoopT == 3

\* the beta schedules have 1..MaxScheduleT steps
MaxScheduleT == 20
\* the beta sequences passed to the constructor have up to MaxBetas entries
MaxBetas == 3

\* the engines of the callers of the multistep sampler have 2..MaxPlmsT
\* timesteps
MaxPlmsT == 9

\* the largest number of timesteps of any engine
MaxSteps ==
    IF MaxPlmsT > MaxLoopT /\ MaxPlmsT > MaxT THEN MaxPlmsT
    ELSE IF MaxLoopT > MaxT THEN MaxLoopT ELSE MaxT

----------------------------------------------------------------------------
(* Values *)

None == "None"
NDARRAY == "ndarray"
Devices == {"cpu", "cuda:0"}

MeanTypes == {"PREVIOUS_X", "START_X", "EPSILON"}
VarTypes == {"LEARNED", "FIXED_SMALL", "FIXED_LARGE", "LEARNED_RANGE"}
LossTypes ==
    {"MSE", "RESCALED_MSE", "KL", "RESCALED_KL", "RESCALED_MSE_BALANCED",
     "RESCALED_MSE_V", "RESCALED_MSE_SNR_PLUS_ONE"}

\* The attributes of self that hold a numpy array after __init__, in the
\* order __init__ assigns them.
TableSeq ==
    << "betas", "log_betas", "alphas_cumprod", "alphas_cumprod_prev",
       "alphas_cumprod_next", "sqrt_alphas_cumprod",
       "sqrt_one_minus_alphas_cumprod", "log_one_minus_alphas_cumprod",
       "sqrt_recip_alphas_cumprod", "sqrt_recipm1_alphas_cumprod",
       "one_minus_alphas_cumprod", "recip_snrp1_clipped",
       "posterior_variance", "posterior_log_variance_clipped",
       "posterior_mean_coef1", "posterior_mean_coef2", "snr" >>

TableNames == { TableSeq[i] : i \in 1..Len(TableSeq) }

\* Arrays the methods compute from the attributes just before a gather:
\* 1.0 / coef1 and coef2 / coef1 (_predict_xstart_from_xprev),
\* 1.0 - alphas_cumprod (q_mean_variance), and the FIXED_LARGE pair
\* np.append(posterior_variance[1], betas[1:]) and its log (p_mean_variance).
DerivedSeq ==
    << "recip_posterior_mean_coef1", "posterior_mean_coef2_over_coef1",
       "one_minus_alphas_cumprod_expr", "fixed_large_variance",
       "fixed_large_log_variance" >>

ArrayNames == TableNames \cup { DerivedSeq[i] : i \in 1..Len(DerivedSeq) }

NameIx ==
    [n \in ArrayNames |->
        IF n \in TableNames
        THEN CHOOSE i \in 1..Len(TableSeq) : TableSeq[i] = n
        ELSE Len(TableSeq) + (CHOOSE i \in 1..Len(DerivedSeq) : DerivedSeq[i] = n)]

\* The number stored at index t of the array called n.  Every array has
\* num_timesteps entries; an entry is represented by an integer that is
\* distinct for distinct (array, index) pairs.
TableValue(n, t) == NameIx[n] * MaxSteps + t

\* Indexing with a tensor of indices: a negative index counts from the end
\* of the num_timesteps entries; an index outside -T..T-1 is out of range
\* (represented by a negative number).
TableIndex(T, t) ==
    [b \in DOMAIN t |->
        IF t[b] >= T \/ t[b] < - T THEN -1
        ELSE IF t[b] < 0 THEN t[b] + T ELSE t[b]]

Batches(S) == [1..BatchSize -> S]

----------------------------------------------------------------------------
(* The engine's device-materialized parameter cache *)

\* The part of self that tensorize and _extract_into_tensor read and write.
EngineState(tb, tf) == [tables |-> tb, tensorized_for |-> tf]

IsTensorizedNever(st, device) == FALSE

\* GaussianDiffusion.is_tensorized
IsTensorized(st, device) == st.tensorized_for = device

\* GaussianDiffusion.tensorize: only the attributes that are (still) numpy
\* arrays are converted and moved; tensorized_for is set unconditionally.
Tensorize(st, device) ==
    [tables |-> [n \in TableNames |->
                    IF st.tables[n] = NDARRAY THEN device ELSE st.tables[n]],
     tensorized_for |-> device]

\* An array argument: which array, and where it lives.
Arr(n, where) == [name |-> n, store |-> where]

Gather(arr, ts) == [b \in 1..BatchSize |-> TableValue(arr.name, ts[b])]

Raise(st, exc) ==
    [st |-> st, ok |-> FALSE, exc |-> exc, dev |-> None,
     val |-> <<>>, tensorize_called |-> FALSE]

Return(st, dev, val, called) ==
    [st |-> st, ok |-> TRUE, exc |-> None, dev |-> dev,
     val |-> val, tensorize_called |-> called]

\* some index of the gather is out of range
OutOfRange(ts) == \E b \in DOMAIN ts : ts[b] < 0

\* what indexing a tensor on device d out of range raises
IndexingError(d) == IF d = "cpu" THEN "IndexError" ELSE "RuntimeError"

\* GaussianDiffusion._extract_into_tensor(arr, timesteps, broadcast_shape),
\* timesteps being a tensor on device tdev holding the indices ts.
\*  - tensorized for tdev: res = arr[timesteps].  A numpy array indexed by a
\*    tensor gives a numpy array, which has no .expand (AttributeError), or
\*    cannot convert a non-cpu index (TypeError, re-raised).  A tensor is
\*    indexed by indices on its own device or on the cpu, else RuntimeError;
\*    the result lives on the device of arr.
\*  - otherwise: th.from_numpy(arr) accepts numpy arrays only (TypeError for
\*    a tensor, before tensorize is reached); the result is moved to tdev and
\*    the attributes are tensorized for tdev.
\*  - an index out of range fails the indexing itself: IndexError (on a
\*    cuda tensor the device-side assertion surfaces as a RuntimeError).
ExtractIntoTensor(st, arr, tdev, ts) ==
    IF IsTensorized(st, tdev)
    THEN IF arr.store = NDARRAY
         THEN Raise(st, IF tdev # "cpu" THEN "TypeError"
                        ELSE IF OutOfRange(ts) THEN "IndexError"
                        ELSE "AttributeError")
         ELSE IF arr.store = tdev \/ tdev = "cpu"
              THEN IF OutOfRange(ts) THEN Raise(st, IndexingError(arr.store))
                   ELSE Return(st, arr.store, Gather(arr, ts), FALSE)
              ELSE Raise(st, "RuntimeError")
    ELSE IF arr.store = NDARRAY
         THEN IF OutOfRange(ts) THEN Raise(st, IndexingError(tdev))
              ELSE Return(Tensorize(st, tdev), tdev, Gather(arr, ts), TRUE)
         ELSE Raise(st, "TypeError")

----------------------------------------------------------------------------
(* The memoized timestep index table *)

\* @lru_cache(1): maxsize = 1
LruMaxsize == 1

\* The key of _ts_index_range's cache: its arguments, the device as str(device).
TsKey(batch_size, nsteps, device) ==
    [batch_size |-> batch_size, nsteps |-> nsteps, device |-> device]

TsKeys ==
    { TsKey(b, n, d) : b \in 1..BatchSize, n \in 2..MaxSteps, d \in Devices }

\* The body of _ts_index_range: ts[i] is column i of the tiled arange, a
\* vector of batch_size copies of i (ts is 0-based in the source, ts[i]
\* is IndexTable(..)[i + 1] here).
IndexTable(batch_size, nsteps) ==
    [i \in 1..nsteps |-> [b \in 1..batch_size |-> i - 1]]

Take(s, n) == SubSeq(s, 1, IF Len(s) < n THEN Len(s) ELSE n)

LruFindNever(cache, key) == 0

\* The position of key in the cache, 0 when it is not cached.
LruFind(cache, key) ==
    IF \E i \in 1..Len(cache) : cache[i].key = key
    THEN CHOOSE i \in 1..Len(cache) : cache[i].key = key
    ELSE 0

\* functools.lru_cache around _ts_index_range: a hit returns the cached
\* list object and makes its entry the most recently used; a miss runs the
\* body (a new list object, named by obj), caches it and evicts the least
\* recently used entries beyond maxsize.
LruCall(cache, key, obj) ==
    LET i == LruFind(cache, key) IN
    IF i > 0
    THEN [hit |-> TRUE, obj |-> cache[i].obj,
          table |-> cache[i].table,
          cache |-> <<cache[i]>> \o SubSeq(cache, 1, i - 1)
                     \o SubSeq(cache, i + 1, Len(cache))]
    ELSE LET e == [key |-> key, obj |-> obj,
                   table |-> IndexTable(key.batch_size, key.nsteps)]
         IN [hit |-> FALSE, obj |-> obj, table |-> e.table,
             cache |-> Take(<<e>> \o cache, LruMaxsize)]

----------------------------------------------------------------------------
(* The reverse process: p_mean_variance and p_sample *)

Has(kw, k) == k \in DOMAIN kw

\* dict.get(k, d)
Get(kw, k, d) == IF Has(kw, k) THEN kw[k] ELSE d

\* drop_args of p_mean_variance
DropArgs ==
    { "guidance_scale", "guidance_after_step", "unconditional_model_kwargs",
      "unconditional_drop_model_kwargs", "txt_guidance_pdrop",
      "txt_guidance_drop_ixs" }

StripNothing(kw) == kw

\* model_kwargs_cond: a new dict holding the keys outside drop_args
StripDropArgs(kw) == [k \in (DOMAIN kw) \ DropArgs |-> kw[k]]

UnconditionalKeyPlain(kw, t) == "unconditional_model_kwargs"

UnconditionalKeyFallingBack(kw, t) ==
    IF /\ Has(kw, "txt_guidance_drop_ixs")
       /\ ({ t[b] : b \in DOMAIN t } \cap kw["txt_guidance_drop_ixs"]) # {}
       /\ Has(kw, "unconditional_drop_model_kwargs")
    THEN "unconditional_drop_model_kwargs"
    ELSE "unconditional_model_kwargs"

\* unconditional_key: the drop variant when a timestep of the batch is in
\* txt_guidance_drop_ixs
UnconditionalKey(kw, t) ==
    IF /\ Has(kw, "txt_guidance_drop_ixs")
       /\ ({ t[b] : b \in DOMAIN t } \cap kw["txt_guidance_drop_ixs"]) # {}
    THEN "unconditional_drop_model_kwargs"
    ELSE "unconditional_model_kwargs"

\* the default of guidance_after_step
GuidanceAfterStepDefault == 100000

\* th.where(t < guidance_after_step, float(guidance_scale), 0.)
EffectiveGuidanceScale(kw, t) ==
    [b \in DOMAIN t |->
        IF t[b] < Get(kw, "guidance_after_step", GuidanceAfterStepDefault)
        THEN Get(kw, "guidance_scale", 0)
        ELSE 0]

CanSkipNever(kw, t) == FALSE

\* can_skip = (effective_guidance_scale <= 0).all()
CanSkip(kw, t) ==
    \A b \in DOMAIN t : EffectiveGuidanceScale(kw, t)[b] <= 0

IsGuidedIgnoringScale(mean_type, kw, t) ==
    Has(kw, UnconditionalKey(kw, t)) /\ mean_type = "EPSILON"

\* is_guided (guidance_scale is never None in the model: the key is absent
\* or holds a number)
IsGuided(mean_type, kw, t) ==
    /\ Has(kw, UnconditionalKey(kw, t))
    /\ mean_type = "EPSILON"
    /\ ~ CanSkip(kw, t)

\* _scale_timesteps: t.float() * (1000.0 / num_timesteps) when rescaling
ScaleTimesteps(rescale, T, t) ==
    IF rescale THEN [b \in DOMAIN t |-> (t[b] * 1000) \div T] ELSE t

\* What a keyword argument contributes to the output of the external model:
\* the conditioning value of "y"; any other keyword the model is passed
\* shifts its output too.
KeyCode(k, v) == IF k = "y" THEN v ELSE 5

RECURSIVE CtxCode(_)
CtxCode(kw) ==
    IF DOMAIN kw = {} THEN 0
    ELSE LET k == CHOOSE x \in DOMAIN kw : TRUE IN
         KeyCode(k, kw[k]) + CtxCode([j \in (DOMAIN kw) \ {k} |-> kw[j]])

\* Floating point: a finite float is represented by an integer, the two
\* non-finite results that the arithmetic of p_sample can produce by Inf (of
\* either sign) and NaN.
Inf == 2000000000
NaN == Inf + 1
IsFinite(v) == v \notin {Inf, -Inf, NaN}

\* A log-variance from ExpOverflowAt on stands for one whose exponential
\* exceeds the largest float (th.exp returns inf), one up to -ExpOverflowAt
\* for one whose exponential underflows to 0.  Every entry of a parameter
\* table lies strictly between.
ExpOverflowAt == 1000

\* The models: TrainedModel keeps its variance channel in [-1, 1],
\* DivergedModel emits variance channels of magnitude HugeOutput.
TrainedModel == 1
DivergedModel == 2
HugeOutput == 1001

\* The external model, an opaque callable model(x, t, **kwargs): element b of
\* its output depends on x[b], t[b] and the keyword arguments.  m is the
\* mean channel, v the variance channel of a learned-variance model (for
\* TrainedModel in {-1, 1}, the ends of the LEARNED_RANGE interval).
ModelCall(model, x, ts, kw) ==
    LET c == CtxCode(kw) IN
    [b \in DOMAIN x |->
        [m |-> ((model * (x[b] + ts[b]) + c) % 5) - 2,
         v |-> IF model = DivergedModel
               THEN IF x[b] % 2 = 1 THEN HugeOutput ELSE - HugeOutput
               ELSE IF (model + ts[b] + c) % 2 = 0 THEN -1 ELSE 1]]

\* th.exp(0.5 * log_variance) and th.exp(log_variance): a positive number
\* that depends on log_variance alone, exp(lv) being the square of
\* exp(0.5 * lv); inf and 0 past the range of the floats.
ExpHalf(lv) ==
    IF lv >= ExpOverflowAt THEN Inf
    ELSE IF lv <= - ExpOverflowAt THEN 0
    ELSE lv * lv + 1
Exp(lv) ==
    IF ExpHalf(lv) = Inf THEN Inf ELSE ExpHalf(lv) * ExpHalf(lv)

\* mask * e * noise for a 0/1 mask, e = exp(...) >= 0 and a finite noise:
\* 0 * inf is nan
MaskedNoise(mask, e, noise) ==
    IF e = Inf
    THEN IF mask = 0 \/ noise = 0 THEN NaN
         ELSE IF noise > 0 THEN Inf ELSE - Inf
    ELSE mask * e * noise

\* a + b for a finite a
FAdd(a, b) == IF IsFinite(b) THEN a + b ELSE b

Clamp(v, lo, hi) == IF v < lo THEN lo ELSE IF v > hi THEN hi ELSE v

\* the caller's denoised_fn: None, or a function of the x_start prediction
ApplyDenoisedFn(fn, v) == IF fn = "triple" THEN 3 * v ELSE v

ProcessXstartClampFirst(v, clip_denoised, denoised_fn) ==
    LET c == IF clip_denoised THEN Clamp(v, -1, 1) ELSE v
    IN IF denoised_fn # None THEN ApplyDenoisedFn(denoised_fn, c) ELSE c

\* process_xstart: denoised_fn first, then the clamp
ProcessXstart(v, clip_denoised, denoised_fn) ==
    LET d == IF denoised_fn # None THEN ApplyDenoisedFn(denoised_fn, v) ELSE v
    IN IF clip_denoised THEN Clamp(d, -1, 1) ELSE d

\* The attribute an array expression is computed from.
BaseAttr ==
    [n \in ArrayNames |->
        CASE n = "recip_posterior_mean_coef1" -> "posterior_mean_coef1"
          [] n = "posterior_mean_coef2_over_coef1" -> "posterior_mean_coef1"
          [] n = "one_minus_alphas_cumprod_expr" -> "alphas_cumprod"
          [] n = "fixed_large_variance" -> "posterior_variance"
          [] n = "fixed_large_log_variance" -> "posterior_variance"
          [] OTHER -> n]

\* An argument that is read from self when the call is made
Now(n) == Arr(n, "now")

\* the array a gather is passed: an attribute is read from self now
ArrNow(st, a) ==
    IF a.store = "now" THEN Arr(a.name, st.tables[BaseAttr[a.name]]) ELSE a

NoValues(st, exc) == [st |-> st, ok |-> FALSE, exc |-> exc, vals |-> <<>>]

\* A sequence of _extract_into_tensor calls on the timesteps ts (on device
\* dev), each result being combined with a tensor on dev right away.  The
\* calls stop at the first exception.  ExtractsAfter continues after the
\* call r.
RECURSIVE RunExtracts(_, _, _, _)
RECURSIVE ExtractsAfter(_, _, _, _)
RunExtracts(st, plan, dev, ts) ==
    IF plan = <<>>
    THEN [st |-> st, ok |-> TRUE, exc |-> None, vals |-> <<>>]
    ELSE ExtractsAfter(ExtractIntoTensor(st, ArrNow(st, Head(plan)), dev, ts),
                       Tail(plan), dev, ts)

ExtractsAfter(r, plan, dev, ts) ==
    IF ~ r.ok THEN NoValues(r.st, r.exc)
    ELSE IF r.dev # dev THEN NoValues(r.st, "RuntimeError")
    ELSE [RunExtracts(r.st, plan, dev, ts) EXCEPT !.vals = <<r.val>> \o @]

\* The gathers of q_posterior_mean_variance, in order
QPosteriorPlan ==
    << Now("posterior_mean_coef1"), Now("posterior_mean_coef2"),
       Now("posterior_variance"), Now("posterior_log_variance_clipped") >>

\* The gathers of the variance part of p_mean_variance.  In the fixed modes
\* the dict literal reads both attributes (and builds the FIXED_LARGE pair
\* with numpy) before the first gather.
VarPlan(var_type, st) ==
    CASE var_type = "LEARNED" -> <<>>
      [] var_type = "LEARNED_RANGE" ->
            << Now("posterior_log_variance_clipped"), Now("log_betas") >>
      [] var_type = "FIXED_LARGE" ->
            << Arr("fixed_large_variance", NDARRAY),
               Arr("fixed_large_log_variance", NDARRAY) >>
      [] var_type = "FIXED_SMALL" ->
            << Arr("posterior_variance", st.tables["posterior_variance"]),
               Arr("posterior_log_variance_clipped",
                   st.tables["posterior_log_variance_clipped"]) >>

\* The gathers of the mean part of p_mean_variance: _predict_xstart_from_xprev,
\* or (_predict_xstart_from_eps and) q_posterior_mean_variance
MeanPlan(mean_type) ==
    CASE mean_type = "PREVIOUS_X" ->
            << Now("recip_posterior_mean_coef1"),
               Now("posterior_mean_coef2_over_coef1") >>
      [] mean_type = "START_X" -> QPosteriorPlan
      [] mean_type = "EPSILON" ->
            << Now("sqrt_recip_alphas_cumprod"),
               Now("sqrt_recipm1_alphas_cumprod") >> \o QPosteriorPlan

IsLearned(var_type) == var_type \in {"LEARNED", "LEARNED_RANGE"}

PmvRaise(st, calls, kw, exc) ==
    [st |-> st, ok |-> FALSE, exc |-> exc, calls |-> calls,
     model_kwargs |-> kw, out |-> [raised |-> exc]]

\* The model calls of p_mean_variance: the conditional call and, when
\* guided, the unconditional call, with the keyword arguments and the
\* timesteps passed and the output
ModelCalls(eng, model, x, t, kw) ==
    LET ts == ScaleTimesteps(eng.rescale_timesteps, eng.num_timesteps, t)
        call(k) == [kwargs |-> k, t |-> ts, output |-> ModelCall(model, x, ts, k)]
    IN IF IsGuided(eng.model_mean_type, kw, t)
       THEN << call(StripDropArgs(kw)), call(kw[UnconditionalKey(kw, t)]) >>
       ELSE << call(StripDropArgs(kw)) >>

\* what of a model call the result of p_mean_variance records
CallsMade(mc) == [i \in DOMAIN mc |-> [kwargs |-> mc[i].kwargs, t |-> mc[i].t]]

\* model_output = (1 + scale) * model_output - scale * unconditional, when
\* guided; mc holds the model calls
BlendedOutput(mc, eff) ==
    IF Len(mc) = 2
    THEN [b \in DOMAIN eff |->
            [m |-> (1 + eff[b]) * mc[1].output[b].m - eff[b] * mc[2].output[b].m,
             v |-> (1 + eff[b]) * mc[1].output[b].v - eff[b] * mc[2].output[b].v]]
    ELSE mc[1].output

ModelVarValuesBlended(mc, blended) == [b \in DOMAIN blended |-> blended[b].v]

\* th.split; guided: the variance channels of the unconditional pass
ModelVarValues(mc, blended) ==
    IF Len(mc) = 2
    THEN [b \in DOMAIN blended |-> mc[2].output[b].v]
    ELSE [b \in DOMAIN blended |-> blended[b].v]

\* model_log_variance; rv holds the gathers of the variance part
ModelLogVariance(var_type, mvv, rv) ==
    CASE var_type = "LEARNED" -> mvv
      [] var_type = "LEARNED_RANGE" ->
            \* frac * max_log + (1 - frac) * min_log, frac = (v + 1) / 2
            [b \in DOMAIN mvv |->
                ((mvv[b] + 1) \div 2) * rv.vals[2][b]
                  + (1 - ((mvv[b] + 1) \div 2)) * rv.vals[1][b]]
      [] OTHER -> rv.vals[2]

\* pred_xstart; rm holds the gathers of the mean part
PredXstart(mean_type, model_output, x, rm, clip_denoised, denoised_fn) ==
    CASE mean_type = "PREVIOUS_X" ->
            [b \in DOMAIN x |->
                ProcessXstart(rm.vals[1][b] * model_output[b]
                                - rm.vals[2][b] * x[b],
                              clip_denoised, denoised_fn)]
      [] mean_type = "START_X" ->
            [b \in DOMAIN x |->
                ProcessXstart(model_output[b], clip_denoised, denoised_fn)]
      [] mean_type = "EPSILON" ->
            [b \in DOMAIN x |->
                ProcessXstart(rm.vals[1][b] * x[b]
                                - rm.vals[2][b] * model_output[b],
                              clip_denoised, denoised_fn)]

\* model_mean: the model output, or the first entry of
\* q_posterior_mean_variance(x_start=pred_xstart, x_t=x, t=t)
ModelMean(mean_type, model_output, pred_xstart, x, rm) ==
    IF mean_type = "PREVIOUS_X"
    THEN model_output
    ELSE [b \in DOMAIN x |->
            rm.vals[IF mean_type = "EPSILON" THEN 3 ELSE 1][b] * pred_xstart[b]
              + rm.vals[IF mean_type = "EPSILON" THEN 4 ELSE 2][b] * x[b]]

\* The returned dict of p_mean_variance, from the model output, the
\* variance channels and the gathers of the variance and the mean part.
PmvDict(eng, x, clip_denoised, denoised_fn, model_output, mvv, rv, rm, log_variance, pred_xstart) ==
    [mean |-> ModelMean(eng.model_mean_type, model_output, pred_xstart, x, rm),
     variance |-> IF IsLearned(eng.model_var_type)
                  THEN [b \in DOMAIN x |-> Exp(log_variance[b])]
                  ELSE rv.vals[1],
     log_variance |-> log_variance,
     pred_xstart |-> pred_xstart,
     model_var_values |-> mvv]

\* p_mean_variance after its gathers: rv those of the variance part, rm
\* those of the mean part
PmvAfterGathers(eng, x, clip_denoised, denoised_fn, kw, mc, blended, mvv, rv, rm) ==
    IF ~ rv.ok THEN PmvRaise(rv.st, CallsMade(mc), kw, rv.exc)
    ELSE IF ~ rm.ok THEN PmvRaise(rm.st, CallsMade(mc), kw, rm.exc)
    ELSE IF ~ IsLearned(eng.model_var_type)
         \* the returned dict reads model_var_values, a local that only
         \* the learned-variance branch assigns
    THEN PmvRaise(rm.st, CallsMade(mc), kw, "UnboundLocalError")
    ELSE [st |-> rm.st, ok |-> TRUE, exc |-> None, calls |-> CallsMade(mc),
          \* model_kwargs is read, never written
          model_kwargs |-> kw,
          out |-> PmvDict(eng, x, clip_denoised, denoised_fn,
                          [b \in DOMAIN x |-> blended[b].m], mvv, rv, rm,
                          ModelLogVariance(eng.model_var_type, mvv, rv),
                          PredXstart(eng.model_mean_type,
                                     [b \in DOMAIN x |-> blended[b].m], x, rm,
                                     clip_denoised, denoised_fn))]

\* p_mean_variance after the gathers rv of its variance part
PmvAfterVariance(eng, x, ti, dev, clip_denoised, denoised_fn, kw, mc, blended, mvv, rv) ==
    PmvAfterGathers(eng, x, clip_denoised, denoised_fn, kw, mc, blended, mvv, rv,
                    RunExtracts(rv.st, MeanPlan(eng.model_mean_type), dev, ti))

\* p_mean_variance after the model output is blended.
\* np.append(self.posterior_variance[1], self.betas[1:]) in the dict of the
\* fixed modes converts a tensor to numpy, which only a cpu tensor allows.
PmvAfterBlend(eng, st, x, t, dev, clip_denoised, denoised_fn, kw, mc, blended) ==
    IF /\ ~ IsLearned(eng.model_var_type)
       /\ st.tables["posterior_variance"] \notin {NDARRAY, "cpu"}
    THEN PmvRaise(st, CallsMade(mc), kw, "TypeError")
    ELSE PmvAfterVariance(eng, x, TableIndex(eng.num_timesteps, t), dev,
                          clip_denoised, denoised_fn, kw, mc, blended,
                          ModelVarValues(mc, blended),
                          RunExtracts(st, VarPlan(eng.model_var_type, st), dev,
                                      TableIndex(eng.num_timesteps, t)))

\* p_mean_variance after the model calls mc
PmvAfterModel(eng, st, x, t, dev, clip_denoised, denoised_fn, kw, mc) ==
    PmvAfterBlend(eng, st, x, t, dev, clip_denoised, denoised_fn, kw, mc,
                  BlendedOutput(mc, EffectiveGuidanceScale(kw, t)))

\* GaussianDiffusion.p_mean_variance(model, x, t, clip_denoised, denoised_fn,
\* model_kwargs) for x and t on device dev.  eng holds the constructor's
\* choices, st the parameter cache.  The result holds the cache afterwards,
\* the model calls made (keyword arguments and timesteps, in order), the
\* caller's model_kwargs dict afterwards and the returned dict or the
\* exception.
PMeanVariance(eng, st, model, x, t, dev, clip_denoised, denoised_fn, kw) ==
    PmvAfterModel(eng, st, x, t, dev, clip_denoised, denoised_fn, kw,
                  ModelCalls(eng, model, x, t, kw))

\* nonzero_mask = (t != 0).float()
NonzeroMask(t) == [b \in DOMAIN t |-> IF t[b] # 0 THEN 1 ELSE 0]

\* the return of p_sample from out = self.p_mean_variance(...); the result
\* holds the p_mean_variance result (pmv) beside the returned dict
PSampleFrom(r, x, t, noise) ==
    LET mask == NonzeroMask(t)
    IN IF ~ r.ok
       THEN [st |-> r.st, ok |-> FALSE, exc |-> r.exc, calls |-> r.calls,
             model_kwargs |-> r.model_kwargs,
             pmv |-> r.out, out |-> [raised |-> r.exc]]
       ELSE [st |-> r.st, ok |-> TRUE, exc |-> None, calls |-> r.calls,
             model_kwargs |-> r.model_kwargs,
             pmv |-> r.out,
             out |-> [sample |-> [b \in DOMAIN x |->
                                    FAdd(r.out.mean[b],
                                         MaskedNoise(mask[b],
                                                     ExpHalf(r.out.log_variance[b]),
                                                     noise[b]))],
                      pred_xstart |-> r.out.pred_xstart]]

\* GaussianDiffusion.p_sample; noise is the draw of th.randn_like(x)
PSample(eng, st, model, x, t, dev, clip_denoised, denoised_fn, kw, noise) ==
    PSampleFrom(PMeanVariance(eng, st, model, x, t, dev, clip_denoised,
                              denoised_fn, kw),
                x, t, noise)

\* GaussianDiffusion.q_sample(x_start, t, noise) with the noise given
QSample(st, x_start, t, dev, noise) ==
    LET r == RunExtracts(st, << Now("sqrt_alphas_cumprod"),
                                Now("sqrt_one_minus_alphas_cumprod") >>, dev, t)
    IN IF ~ r.ok
       THEN [st |-> r.st, ok |-> FALSE, exc |-> r.exc, out |-> [raised |-> r.exc]]
       ELSE [st |-> r.st, ok |-> TRUE, exc |-> None,
             out |-> [b \in DOMAIN x_start |->
                        r.vals[1][b] * x_start[b] + r.vals[2][b] * noise[b]]]

----------------------------------------------------------------------------
(* The samplers: one step of each, and the generators of the progressive   *)
(* forms                                                                   *)

\* th.sqrt and th.log on the integers that represent floats: functions of
\* the argument alone
Sqrt(v) == 2 * v + 1
Log(v) == 3 * v - 1

\* The float an expression with a square root, a logarithm or a division
\* evaluates to is not computed: it is represented by an integer of a fixed
\* range that the operands determine.
Fit(v) == (v % 101) - 50

Min(a, b) == IF a < b THEN a ELSE b

StepRaise(st, calls, exc) ==
    [st |-> st, ok |-> FALSE, exc |-> exc, calls |-> calls,
     out |-> [raised |-> exc]]

\* eta * sqrt((1 - alpha_bar_prev) / (1 - alpha_bar))
\*     * sqrt(1 - alpha_bar / alpha_bar_prev)
Sigma(eta, alpha_bar, alpha_bar_prev) ==
    eta * Sqrt((1 - alpha_bar_prev) \div (1 - alpha_bar))
        * Sqrt(1 - alpha_bar \div alpha_bar_prev)

\* sigma as a float: 0.0 for eta = 0.0 (the factors are finite), else a
\* float that the operands determine
EtaSigma(eta, alpha_bar, alpha_bar_prev) ==
    IF eta = 0 THEN 0 ELSE Fit(Sigma(eta, alpha_bar, alpha_bar_prev))

\* the gathers of _predict_eps_from_xstart and of _predict_xstart_from_eps
EpsPlan ==
    << Now("sqrt_recip_alphas_cumprod"), Now("sqrt_recipm1_alphas_cumprod") >>

\* the return of ddim_sample from out = self.p_mean_variance(...) and the
\* gathers e of eps, alpha_bar and alpha_bar_prev
DdimReturn(r, e, x, t, eta, noise) ==
    IF ~ e.ok THEN StepRaise(e.st, r.calls, e.exc)
    ELSE [st |-> e.st, ok |-> TRUE, exc |-> None, calls |-> r.calls,
          out |->
            [sample |->
               [b \in DOMAIN x |->
                  Fit(r.out.pred_xstart[b] * Sqrt(e.vals[4][b])
                        + Sqrt(1 - e.vals[4][b]
                                 - EtaSigma(eta, e.vals[3][b], e.vals[4][b])
                                     * EtaSigma(eta, e.vals[3][b], e.vals[4][b]))
                            * Fit((e.vals[1][b] * x[b] - r.out.pred_xstart[b])
                                    \div e.vals[2][b]))
                    + NonzeroMask(t)[b]
                        * EtaSigma(eta, e.vals[3][b], e.vals[4][b]) * noise[b]],
             pred_xstart |-> r.out.pred_xstart]]

\* ddim_sample after out = self.p_mean_variance(...)
DdimSampleFrom(eng, r, x, t, dev, eta, noise) ==
    IF ~ r.ok THEN StepRaise(r.st, r.calls, r.exc)
    ELSE DdimReturn(r,
                    RunExtracts(r.st, EpsPlan \o << Now("alphas_cumprod"),
                                                   Now("alphas_cumprod_prev") >>,
                                dev, TableIndex(eng.num_timesteps, t)),
                    x, t, eta, noise)

\* GaussianDiffusion.ddim_sample; noise is the draw of th.randn_like(x)
DdimSample(eng, st, model, x, t, dev, clip_denoised, denoised_fn, kw, eta, noise) ==
    DdimSampleFrom(eng,
                   PMeanVariance(eng, st, model, x, t, dev, clip_denoised,
                                 denoised_fn, kw),
                   x, t, dev, eta, noise)

\* the assertion of ddim_reverse_sample: eta == 0.0
EtaAny(eta) == TRUE

EtaIsZero(eta) == eta = 0

\* the return of ddim_reverse_sample from out = self.p_mean_variance(...)
\* and the gathers e of eps and alpha_bar_next
DdimReverseReturn(r, e, x) ==
    IF ~ e.ok THEN StepRaise(e.st, r.calls, e.exc)
    ELSE [st |-> e.st, ok |-> TRUE, exc |-> None, calls |-> r.calls,
          out |->
            [sample |->
               [b \in DOMAIN x |->
                  Fit(r.out.pred_xstart[b] * Sqrt(e.vals[3][b])
                        + Sqrt(1 - e.vals[3][b])
                            * Fit((e.vals[1][b] * x[b] - r.out.pred_xstart[b])
                                    \div e.vals[2][b]))],
             pred_xstart |-> r.out.pred_xstart]]

\* ddim_reverse_sample after out = self.p_mean_variance(..., t+1, ...): the
\* gathers are made at t
DdimReverseFrom(eng, r, x, t, dev) ==
    IF ~ r.ok THEN StepRaise(r.st, r.calls, r.exc)
    ELSE DdimReverseReturn(r,
                           RunExtracts(r.st,
                                       EpsPlan \o << Now("alphas_cumprod_next") >>,
                                       dev, TableIndex(eng.num_timesteps, t)),
                           x)

DdimReverseSampleAtT(eng, st, model, x, t, dev, clip_denoised, denoised_fn, kw, eta) ==
    IF ~ EtaIsZero(eta) THEN StepRaise(st, <<>>, "AssertionError")
    ELSE DdimReverseFrom(eng,
                         PMeanVariance(eng, st, model, x, t, dev, clip_denoised,
                                       denoised_fn, kw),
                         x, t, dev)

\* GaussianDiffusion.ddim_reverse_sample
DdimReverseSample(eng, st, model, x, t, dev, clip_denoised, denoised_fn, kw, eta) ==
    IF ~ EtaIsZero(eta) THEN StepRaise(st, <<>>, "AssertionError")
    ELSE DdimReverseFrom(eng,
                         PMeanVariance(eng, st, model, x,
                                       [b \in DOMAIN t |-> t[b] + 1], dev,
                                       clip_denoised, denoised_fn, kw),
                         x, t, dev)

\* the return of model_step (in plms_steps and prk_double_step) from
\* out = self.p_mean_variance(...) and the gathers e of
\* _predict_eps_from_xstart
ModelStepReturn(r, e, x) ==
    IF ~ e.ok THEN StepRaise(e.st, r.calls, e.exc)
    ELSE [st |-> e.st, ok |-> TRUE, exc |-> None, calls |-> r.calls,
          out |-> [eps |-> [b \in DOMAIN x |->
                              Fit((e.vals[1][b] * x[b] - r.out.pred_xstart[b])
                                    \div e.vals[2][b])],
                   model_var_values |-> r.out.model_var_values]]

ModelStepFrom(eng, r, x, t, dev) ==
    IF ~ r.ok THEN StepRaise(r.st, r.calls, r.exc)
    ELSE ModelStepReturn(r,
                         RunExtracts(r.st, EpsPlan, dev,
                                     TableIndex(eng.num_timesteps, t)),
                         x)

\* model_step(x_, t_) of plms_steps and prk_double_step; c holds the
\* arguments of the sampler
ModelStep(eng, st, c, x, t, dev) ==
    ModelStepFrom(eng,
                  PMeanVariance(eng, st, c.model, x, t, dev, c.clip_denoised,
                                c.denoised_fn, c.kw),
                  x, t, dev)

\* xstart of transfer: _predict_xstart_from_eps, clamped when clip_denoised
TransferXstart(r1, c, x, eps) ==
    [b \in DOMAIN x |->
        IF c.clip_denoised
        THEN Clamp(r1.vals[1][b] * x[b] - r1.vals[2][b] * eps[b], -1, 1)
        ELSE r1.vals[1][b] * x[b] - r1.vals[2][b] * eps[b]]

TransferSigmaFromEta(ab1, ab2, eta, use_model_var, v) == EtaSigma(eta, ab1, ab2)

\* sigma of transfer, from alpha_bar_t1 and alpha_bar_t2
TransferSigma(ab1, ab2, eta, use_model_var, v) ==
    IF use_model_var
    THEN Fit(Sqrt(Exp(Fit(((v + 1) \div 2)
                            * Min(Log(1 - ab2), Log(1 - ab1 \div ab2))
                          + (1 - ((v + 1) \div 2))
                            * Log(((1 - ab2) \div (1 - ab1))
                                    * (1 - ab1 \div ab2))))))
    ELSE EtaSigma(eta, ab1, ab2)

\* the return of transfer from its gathers at t1 (r1) and at t2 (r2)
TransferReturn(r1, r2, c, x, eps, t1, sigma, noise) ==
    IF ~ r2.ok THEN StepRaise(r2.st, <<>>, r2.exc)
    ELSE [st |-> r2.st, ok |-> TRUE, exc |-> None, calls |-> <<>>,
          out |->
            [sample |->
               [b \in DOMAIN x |->
                  Fit(TransferXstart(r1, c, x, eps)[b] * Sqrt(r2.vals[1][b])
                        + Sqrt(1 - r2.vals[1][b] - sigma[b] * sigma[b]) * eps[b])
                    + NonzeroMask(t1)[b] * sigma[b] * noise[b]],
             xstart |-> TransferXstart(r1, c, x, eps),
             sigma |-> sigma]]

TransferFromT2(r1, r2, c, x, eps, t1, eta, use_model_var, mvv, noise) ==
    TransferReturn(r1, r2, c, x, eps, t1,
                   IF ~ r2.ok THEN <<>>
                   ELSE [b \in DOMAIN x |->
                           TransferSigma(r1.vals[3][b], r2.vals[1][b], eta,
                                         use_model_var,
                                         IF use_model_var THEN mvv[b] ELSE 0)],
                   noise)

TransferFromT1(eng, r1, c, x, eps, t1, t2, dev, eta, use_model_var, mvv, noise) ==
    IF ~ r1.ok THEN StepRaise(r1.st, <<>>, r1.exc)
    ELSE TransferFromT2(r1,
                        RunExtracts(r1.st, << Now("alphas_cumprod") >>, dev,
                                    TableIndex(eng.num_timesteps, t2)),
                        c, x, eps, t1, eta, use_model_var, mvv, noise)

\* transfer(x_, eps, t1_, t2_, ...) of plms_steps (use_model_var and
\* model_var_values given) and of prk_double_step (use_model_var = FALSE)
Transfer(eng, st, c, x, eps, t1, t2, dev, eta, use_model_var, mvv, noise) ==
    TransferFromT1(eng,
                   RunExtracts(st, EpsPlan \o << Now("alphas_cumprod") >>, dev,
                               TableIndex(eng.num_timesteps, t1)),
                   c, x, eps, t1, t2, dev, eta, use_model_var, mvv, noise)

\* The progress of prk_double_step and plms_steps: the parameter cache, the
\* model calls made, the eps values computed so far and the latest x.
Stages(st, x) ==
    [st |-> st, ok |-> TRUE, exc |-> None, calls |-> <<>>, eps |-> <<>>,
     mvv |-> <<>>, cur |-> x]

ModelStageFrom(env, m) ==
    IF ~ m.ok
    THEN [env EXCEPT !.ok = FALSE, !.exc = m.exc, !.st = m.st,
                     !.calls = @ \o m.calls]
    ELSE [env EXCEPT !.st = m.st, !.calls = @ \o m.calls,
                     !.eps = Append(@, m.out.eps),
                     !.mvv = m.out.model_var_values]

\* eps = model_step(env.cur, t)
ModelStage(eng, env, c, t, dev) ==
    IF ~ env.ok THEN env
    ELSE ModelStageFrom(env, ModelStep(eng, env.st, c, env.cur, t, dev))

TransferStageFrom(env, a) ==
    IF ~ a.ok
    THEN [env EXCEPT !.ok = FALSE, !.exc = a.exc, !.st = a.st]
    ELSE [env EXCEPT !.st = a.st, !.cur = a.out.sample]

\* x_k, _ = transfer(x, eps_k, t1, t_to), eps_k being the latest eps
TransferStage(eng, env, c, x, t1, t_to, dev, noise) ==
    IF ~ env.ok THEN env
    ELSE TransferStageFrom(env,
                           Transfer(eng, env.st, c, x, env.eps[Len(env.eps)],
                                    t1, t_to, dev, 0, FALSE, <<>>, noise))

\* The dict returned holds sample, pred_xstart and eps; beside them the
\* result records what the step computed on the way: the eps of every
\* model_step it ran (stage_eps), the eps_prime it transferred with, the
\* sigma of that transfer and the timesteps t2 it transferred to (target).
LastTransferFrom(env, a, eps_prime, eps, t2) ==
    IF ~ a.ok THEN StepRaise(a.st, env.calls, a.exc)
    ELSE [st |-> a.st, ok |-> TRUE, exc |-> None, calls |-> env.calls,
          out |-> [sample |-> a.out.sample,
                   pred_xstart |-> a.out.xstart,
                   eps |-> eps,
                   stage_eps |-> env.eps,
                   eps_prime |-> eps_prime,
                   sigma |-> a.out.sigma,
                   target |-> t2]]

\* the last transfer and the returned dict; eps is the 'eps' entry
LastTransfer(eng, env, c, x, eps_prime, eps, t1, t2, dev, eta, use_model_var, noise) ==
    IF ~ env.ok THEN StepRaise(env.st, env.calls, env.exc)
    ELSE LastTransferFrom(env,
                          Transfer(eng, env.st, c, x, eps_prime, t1, t2, dev,
                                   eta, use_model_var, env.mvv, noise),
                          eps_prime, eps, t2)

\* eps_prime = (eps1 + 2 * eps2 + 2 * eps3 + eps4) / 6
RungeKutta(eps) ==
    [b \in DOMAIN eps[1] |->
        Fit((eps[1][b] + 2 * eps[2][b] + 2 * eps[3][b] + eps[4][b]) \div 6)]

PrkEpsPrime(env, ddim_fallback) ==
    IF ~ env.ok THEN <<>>
    ELSE IF ddim_fallback THEN env.eps[1]
    ELSE RungeKutta(env.eps)

\* prk_double_step from the stages before eps_prime
PrkFinish(eng, env, c, x, t1, t2, dev, eta, eps_prime, noise) ==
    LastTransfer(eng, env, c, x, eps_prime, eps_prime, t1, t2, dev, eta,
                 FALSE, noise)

\* the stages of prk_double_step after eps1 = model_step(x, t1) when not
\* ddim_fallback: x1, eps2, x2, eps3, x3, eps4
PrkStages(eng, e1, c, x, t1, t_mid, t2, dev, noise) ==
    ModelStage(eng,
      TransferStage(eng,
        ModelStage(eng,
          TransferStage(eng,
            ModelStage(eng,
              TransferStage(eng, e1, c, x, t1, t_mid, dev, noise),
              c, t_mid, dev),
            c, x, t1, t_mid, dev, noise),
          c, t_mid, dev),
        c, x, t1, t2, dev, noise),
      c, t2, dev)

PrkFromStages(eng, env, c, x, t1, t2, dev, eta, ddim_fallback, noise) ==
    PrkFinish(eng, env, c, x, t1, t2, dev, eta,
              PrkEpsPrime(env, ddim_fallback), noise)

PrkFromFirst(eng, e1, c, x, t1, t_mid, t2, dev, eta, ddim_fallback, noise) ==
    PrkFromStages(eng,
                  IF ddim_fallback THEN e1
                  ELSE PrkStages(eng, e1, c, x, t1, t_mid, t2, dev, noise),
                  c, x, t1, t2, dev, eta, ddim_fallback, noise)

\* GaussianDiffusion.prk_double_step
PrkDoubleStep(eng, st, c, x, t, dev, eta, ddim_fallback, noise) ==
    PrkFromFirst(eng, ModelStage(eng, Stages(st, x), c, t, dev), c, x,
                 t, [b \in DOMAIN t |-> t[b] - 1], [b \in DOMAIN t |-> t[b] - 2],
                 dev, eta, ddim_fallback, noise)

\* eps_prime = (55 * eps - 59 * old_eps[-1] + 37 * old_eps[-2]
\*              - 9 * old_eps[-3]) / 24
AdamsBashforth(eps, old_eps) ==
    LET n == Len(old_eps) IN
    [b \in DOMAIN eps |->
        Fit((55 * eps[b] - 59 * old_eps[n][b] + 37 * old_eps[n - 1][b]
               - 9 * old_eps[n - 2][b]) \div 24)]

PlmsFinish(eng, env, c, x, t, t2, old_eps, dev, eta, ddim_fallback, use_model_var, noise) ==
    IF ~ env.ok THEN StepRaise(env.st, env.calls, env.exc)
    ELSE IF ~ ddim_fallback /\ Len(old_eps) < 3
    THEN StepRaise(env.st, env.calls, "IndexError")
    ELSE LastTransfer(eng, env, c, x,
                      IF ddim_fallback THEN env.eps[1]
                      ELSE AdamsBashforth(env.eps[1], old_eps),
                      env.eps[1], t, t2, dev, eta, use_model_var, noise)

\* GaussianDiffusion.plms_steps
PlmsSteps(eng, st, c, x, t, t2, old_eps, dev, eta, ddim_fallback, use_model_var, noise) ==
    PlmsFinish(eng, ModelStage(eng, Stages(st, x), c, t, dev), c, x, t, t2,
               old_eps, dev, eta, ddim_fallback, use_model_var, noise)

\* the last step of plms_sample_loop_progressive: the mean of
\* p_mean_variance is the sample
PlmsFinalFrom(r) ==
    IF ~ r.ok THEN StepRaise(r.st, r.calls, r.exc)
    ELSE [st |-> r.st, ok |-> TRUE, exc |-> None, calls |-> r.calls,
          out |-> [sample |-> r.out.mean, pred_xstart |-> r.out.pred_xstart]]

SamplerKinds == {"p", "ddim", "prk", "plms"}

\* list(range(lo, hi))[::-1]
RangeReversed(lo, hi) ==
    IF hi <= lo THEN <<>> ELSE [k \in 1..(hi - lo) |-> hi - k]

\* list(range(2, T, 2))[::-1]
PrkIndices(T) ==
    LET n == IF T <= 2 THEN 0 ELSE (T - 1) \div 2 IN
    [k \in 1..n |-> 2 * (n - k + 1)]

\* The steps a progressive sampler takes once started, in order: the
\* function of each step and the index i of its t = trange[i].
StepPlan(kind, T) ==
    LET steps(fn, ix) == [k \in 1..Len(ix) |-> [fn |-> fn, i |-> ix[k]]] IN
    CASE kind = "p" -> steps("p_sample", RangeReversed(0, T))
      [] kind = "ddim" -> steps("ddim_sample", RangeReversed(0, T))
      [] kind = "prk" -> steps("prk_double_step", PrkIndices(T))
      [] kind = "plms" ->
            steps("prk_double_step", << T - 1, T - 3, T - 5 >>)
              \o steps("plms_steps", RangeReversed(1, T - 6))
              \o steps("final", << 0 >>)

\* The frame of a generator that has not run yet: calling a generator
\* function runs none of its body.
NewGenerator(kind, device) ==
    [op |-> "generator", kind |-> kind, device |-> device,
     state |-> "created", trange |-> <<>>, todo |-> <<>>, img |-> <<>>,
     old_eps |-> <<>>, step_counter |-> 0, yielded |-> <<>>,
     model_calls |-> 0, exc |-> None, eta |-> 0, ddim_first_n |-> 0,
     ddim_last_n |-> <<>>]

DdimFallbackNever(step_counter, ddim_first_n) == FALSE

\* ddim_fallback = (step_counter < ddim_first_n) or (ddim_last_n is not None
\* and ...), ddim_last_n being None
DdimFallback(step_counter, ddim_first_n) == step_counter < ddim_first_n

\* (An optional integer is a sequence: <<>> is None, <<n>> is n.)
\* (nsteps - step_counter) < ddim_last_n is reached, when the first
\* disjunct is false and ddim_last_n is given: nsteps is not a name of the
\* function nor of the module
NstepsRead(step_counter, ddim_first_n, ddim_last_n) ==
    ~ (step_counter < ddim_first_n) /\ ddim_last_n # <<>>

\* One step of a sampler, at the timesteps t.  The prk sampler calls
\* prk_double_step without ddim_fallback and with its eta (the eta of its
\* frame is 0.0); the plms sampler passes eta if ddim_fallback else 0.0.
SamplerStep(eng, st, c, fn, img, t, old_eps, dev, ddim_fallback, eta, noise) ==
    CASE fn = "p_sample" ->
            PSample(eng, st, c.model, img, t, dev, c.clip_denoised,
                    c.denoised_fn, c.kw, noise)
      [] fn = "ddim_sample" ->
            DdimSample(eng, st, c.model, img, t, dev, c.clip_denoised,
                       c.denoised_fn, c.kw, 0, noise)
      [] fn = "prk_double_step" ->
            PrkDoubleStep(eng, st, c, img, t, dev,
                          IF ddim_fallback THEN eta ELSE 0, ddim_fallback, noise)
      [] fn = "plms_steps" ->
            PlmsSteps(eng, st, c, img, t,
                      [b \in DOMAIN t |-> IF t[b] - 1 < 0 THEN 0 ELSE t[b] - 1],
                      old_eps, dev, IF ddim_fallback THEN eta ELSE 0,
                      ddim_fallback, ddim_fallback, noise)
      [] fn = "final" ->
            PlmsFinalFrom(PMeanVariance(eng, st, c.model, img, t, dev,
                                        c.clip_denoised, c.denoised_fn, c.kw))

OldEpsKeptWhole(fn, old_eps, out) ==
    IF fn \in {"prk_double_step", "plms_steps"} THEN Append(old_eps, out.eps)
    ELSE old_eps

\* what old_eps is after a step
OldEpsAfter(fn, old_eps, out) ==
    CASE fn = "prk_double_step" -> Append(old_eps, out.eps)
      [] fn = "plms_steps" -> Append(Tail(old_eps), out.eps)
      [] OTHER -> old_eps

\* The generator after the step r at the head of its todo list: the step
\* raised, or the generator yields r.out and is suspended there.
AfterStep(S, h, t, r, noise) ==
    LET f == S.frame IN
    IF ~ r.ok
    THEN [S EXCEPT !.st = r.st,
                   !.frame = [f EXCEPT !.state = "failed", !.exc = r.exc,
                                       !.model_calls = @ + Len(r.calls)]]
    ELSE [S EXCEPT !.st = r.st,
                   !.frame = [f EXCEPT
                       !.state = "suspended",
                       !.todo = Tail(@),
                       !.yielded = Append(@, [fn |-> h.fn, t |-> t, x |-> f.img,
                                              noise |-> noise, out |-> r.out]),
                       !.img = r.out.sample,
                       !.old_eps = OldEpsAfter(h.fn, @, r.out),
                       !.step_counter = IF h.fn = "final" THEN @ ELSE @ + 1,
                       !.model_calls = @ + Len(r.calls)]]

\* the step at the head of the todo list runs, at t = trange[i]
RunHead(eng, S, c, h, t, noise) ==
    AfterStep(S, h, t,
              IF /\ S.frame.kind = "plms"
                 /\ h.fn # "final"
                 /\ NstepsRead(S.frame.step_counter, S.frame.ddim_first_n,
                               S.frame.ddim_last_n)
              THEN StepRaise(S.st, <<>>, "NameError")
              ELSE SamplerStep(eng, S.st, c, h.fn, S.frame.img, t,
                               S.frame.old_eps, S.frame.device,
                               DdimFallback(S.frame.step_counter,
                                            S.frame.ddim_first_n),
                               S.frame.eta, noise),
              noise)

\* A started generator runs to its next yield: the loops are over
\* (StopIteration), trange[i] is out of the list (IndexError), or the step at
\* the head of the todo list runs.
RunToYield(eng, S, c, noise) ==
    IF S.frame.todo = <<>>
    THEN [S EXCEPT !.frame = [@ EXCEPT !.state = "done"]]
    ELSE IF \/ Head(S.frame.todo).i < - eng.num_timesteps
            \/ Head(S.frame.todo).i >= eng.num_timesteps
    THEN [S EXCEPT !.frame = [@ EXCEPT !.state = "failed", !.exc = "IndexError"]]
    ELSE RunHead(eng, S, c, Head(S.frame.todo),
                 S.frame.trange[(IF Head(S.frame.todo).i < 0
                                 THEN Head(S.frame.todo).i + eng.num_timesteps
                                 ELSE Head(S.frame.todo).i) + 1],
                 noise)

\* The first next() runs the body from its start: img = noise, trange =
\* ts_index_range(shape[0], self.num_timesteps, device) (the lru_cache
\* lookup l) and the index lists.
Started(eng, S, c, key, l) ==
    [S EXCEPT !.cache = l.cache,
              !.nbuilds = IF l.hit THEN @ ELSE @ + 1,
              !.built = IF l.hit THEN @ ELSE @ \cup {key},
              !.frame = [@ EXCEPT !.trange = l.table,
                                  !.todo = StepPlan(S.frame.kind, eng.num_timesteps),
                                  !.img = c.x]]

\* next(generator).  S holds the parameter cache of the engine, the cache of
\* _ts_index_range with the number of tables built, and the frame.
Resume(eng, S, c, noise) ==
    RunToYield(eng,
               IF S.frame.state = "created"
               THEN Started(eng, S, c,
                            TsKey(BatchSize, eng.num_timesteps, S.frame.device),
                            LruCall(S.cache,
                                    TsKey(BatchSize, eng.num_timesteps, S.frame.device),
                                    S.nbuilds + 1))
               ELSE S,
               c, noise)

\* for sample in generator: ...; the k-th step draws the noise
\* draws[k], the draws being repeated after the last of them
RECURSIVE Drain(_, _, _, _, _)
Drain(eng, S, c, draws, k) ==
    IF S.frame.state \in {"done", "failed"} THEN S
    ELSE Drain(eng, Resume(eng, S, c, draws[((k - 1) % Len(draws)) + 1]),
               c, draws, k + 1)

\* p_sample_loop, ddim_sample_loop, prk_sample_loop and plms_sample_loop:
\* final = None; for sample in progressive form: final = sample;
\* return final["sample"].  S is the state after the loop.
SampleLoopReturn(S) ==
    LET f == S.frame IN
    IF f.state = "failed"
    THEN [ok |-> FALSE, exc |-> f.exc, out |-> [raised |-> f.exc]]
    ELSE IF f.yielded = <<>>
    THEN [ok |-> FALSE, exc |-> "TypeError", out |-> [raised |-> "TypeError"]]
    ELSE [ok |-> TRUE, exc |-> None,
          out |-> [sample |-> f.yielded[Len(f.yielded)].out.sample]]

----------------------------------------------------------------------------
(* Specification Spec: one engine, callers of _extract_into_tensor/tensorize *)

Self == EngineState(tables, tensorized_for)

NoCall == [op |-> "none"]

\* The index-table cache of a process that has not called ts_index_range.
TsIdle ==
    /\ ts_cache = <<>>
    /\ ts_builds = [k \in TsKeys |-> 0]
    /\ ts_ret = NoCall

\* No caller of q_sample / p_mean_variance / p_sample.
CallIdle ==
    /\ caller = NoCall
    /\ pc = "idle"
    /\ res = NoCall
    /\ gen = NoCall

\* __init__ fails for a single beta (posterior_variance[1]): an engine has
\* at least two timesteps.
\* The engines GaussianDiffusion(...) returns, with one of the given loss
\* types.
ConstructedEngineOf(maxT, loss_types) ==
    /\ model_mean_type \in MeanTypes
    /\ model_var_type \in VarTypes
    /\ loss_type \in loss_types
    /\ num_timesteps \in 2..maxT
    /\ rescale_timesteps \in BOOLEAN
    \* __init__: every table is a float64 numpy array; tensorized_for = None
    /\ tables = [n \in TableNames |-> NDARRAY]
    /\ tensorized_for = None

\* The samplers and the parameter cache never read loss_type: their
\* engines are the MSE ones.
ConstructedEngineUpTo(maxT) == ConstructedEngineOf(maxT, {"MSE"})

ConstructedEngine == ConstructedEngineUpTo(MaxT)

\* _extract_into_tensor reads neither model_mean_type nor model_var_type:
\* the engine of this specification is the EPSILON / LEARNED_RANGE one.
Init ==
    /\ ConstructedEngine
    /\ model_mean_type = "EPSILON"
    /\ model_var_type = "LEARNED_RANGE"
    /\ rescale_timesteps = FALSE
    /\ ext = NoCall
    /\ TsIdle
    /\ CallIdle

\* The arrays the callers of this specification gather from: q_sample's
\* sqrt_alphas_cumprod, q_posterior_mean_variance's posterior_variance and
\* p_mean_variance's FIXED_LARGE array.
ExtractedNames == {"sqrt_alphas_cumprod", "posterior_variance"}

\* The arrays a caller can pass: an attribute of self read at the time of
\* the call, or a numpy array the caller holds (read from self before the
\* tables were tensorized, or built with numpy).
ArrArgs == { Arr(n, tables[n]) : n \in ExtractedNames }
           \cup { Arr(n, NDARRAY) : n \in ExtractedNames \cup {"fixed_large_variance"} }

ExtractCall(arr, tdev, ts) ==
    LET r == ExtractIntoTensor(Self, arr, tdev, ts) IN
    /\ tables' = r.st.tables
    /\ tensorized_for' = r.st.tensorized_for
    /\ ext' = [op |-> "extract", arr |-> arr, dev |-> tdev, ts |-> ts,
               pre |-> Self, ok |-> r.ok, exc |-> r.exc,
               res_dev |-> r.dev, val |-> r.val,
               tensorize_called |-> r.tensorize_called]
    /\ UNCHANGED <<config_vars, ts_vars, call_vars>>

\* tensorize is a public method: a caller may invoke it directly.
TensorizeCall(device) ==
    LET st == Tensorize(Self, device) IN
    /\ tables' = st.tables
    /\ tensorized_for' = st.tensorized_for
    /\ ext' = [op |-> "tensorize", dev |-> device, pre |-> Self]
    /\ UNCHANGED <<config_vars, ts_vars, call_vars>>

Extract ==
    \E arr \in ArrArgs, tdev \in Devices, ts \in Batches(0..(num_timesteps - 1)) :
        ExtractCall(arr, tdev, ts)

TensorizeDirect == \E device \in Devices : TensorizeCall(device)

Next == Extract \/ TensorizeDirect

Spec == Init /\ [][Next]_vars

\* C1: after the engine has materialized its tables for device A, an
\* _extract_into_tensor call with timesteps on another device B succeeds,
\* returns the gathered values on B and leaves every table on B with
\* tensorized_for = B.
C1_CrossDeviceExtractRebuilds ==
    ( /\ ext.op = "extract"
      /\ ext.pre.tensorized_for \in Devices
      /\ \A n \in TableNames : ext.pre.tables[n] = ext.pre.tensorized_for
      /\ ext.dev # ext.pre.tensorized_for )
    => ( /\ ext.ok
         /\ ext.res_dev = ext.dev
         /\ ext.val = Gather(ext.arr, ext.ts)
         /\ tensorized_for = ext.dev
         /\ \A n \in TableNames : tables[n] = ext.dev )

\* C2: once tensorized_for = D, an _extract_into_tensor call with timesteps
\* on D does not call tensorize and leaves every table attribute and
\* tensorized_for unchanged, however many such calls are made.
C2_SameDeviceExtractIsPureGather ==
    [][ \A tdev \in Devices :
          ( /\ tensorized_for = tdev
            /\ \E arr \in ArrArgs, ts \in Batches(0..(num_timesteps - 1)) :
                  ExtractCall(arr, tdev, ts) )
          => ( /\ UNCHANGED <<tables, tensorized_for>>
               /\ ~ ext'.tensorize_called ) ]_vars

\* a call on the device the engine is tensorized for has returned its gather
C2_Witness ==
    /\ ext.op = "extract"
    /\ ext.pre.tensorized_for = ext.dev
    /\ ext.ok
    /\ ext.val = Gather(ext.arr, ext.ts)

----------------------------------------------------------------------------
(* Specification SpecTs: the callers of ts_index_range in one process *)

RECURSIVE SumOver(_, _)
SumOver(f, S) ==
    IF S = {} THEN 0
    ELSE LET k == CHOOSE x \in S : TRUE IN f[k] + SumOver(f, S \ {k})

TsTotalBuilds == SumOver(ts_builds, TsKeys)

\* ts_index_range(batch_size, maxstep, device): the key is built with
\* str(device).  A miss builds a new list; the list objects are numbered in
\* the order they are built.
TsIndexRangeCall(batch_size, maxstep, device) ==
    LET key == TsKey(batch_size, maxstep, device)
        r == LruCall(ts_cache, key, TsTotalBuilds + 1)
    IN
    /\ r.hit \/ TsTotalBuilds < MaxTsBuilds
    /\ ts_cache' = r.cache
    /\ ts_builds' = IF r.hit THEN ts_builds
                    ELSE [ts_builds EXCEPT ![key] = @ + 1]
    /\ ts_ret' = [op |-> "ts_index_range", key |-> key, hit |-> r.hit,
                  obj |-> r.obj, table |-> r.table,
                  prev |-> IF ts_ret.op = "none" THEN NoCall
                           ELSE [op |-> "ts_index_range", key |-> ts_ret.key,
                                 obj |-> ts_ret.obj]]
    /\ UNCHANGED <<engine_vars, ext, call_vars>>

TsIndexRange ==
    \E b \in 1..BatchSize, n \in 2..MaxT, d \in Devices :
        TsIndexRangeCall(b, n, d)

InitTs ==
    /\ ConstructedEngine
    /\ model_mean_type = "EPSILON"
    /\ model_var_type = "LEARNED_RANGE"
    /\ rescale_timesteps = FALSE
    /\ ext = NoCall
    /\ TsIdle
    /\ CallIdle

NextTs == TsIndexRange

SpecTs == InitTs /\ [][NextTs]_vars

----------------------------------------------------------------------------
(* Specifications SpecPmv and SpecSample: a caller of q_sample, then of    *)
(* p_mean_variance or p_sample                                             *)

Eng ==
    [model_mean_type |-> model_mean_type, model_var_type |-> model_var_type,
     num_timesteps |-> num_timesteps, rescale_timesteps |-> rescale_timesteps]

\* The model_kwargs of the callers of p_mean_variance: the conditioning y,
\* a guidance scale (with txt_guidance_pdrop and, for a nonzero
\* scale, guidance_after_step or not), and the unconditional kwargs (plain,
\* drop variant with its timestep list, both or none).
ModelKwargs ==
    { ("y" :> 1) @@ g @@ u :
        g \in {<<>>}
              \cup { ("guidance_scale" :> v) @@ ("txt_guidance_pdrop" :> 1) :
                       v \in {0, 2} }
              \cup { ("guidance_scale" :> 2) @@ ("txt_guidance_pdrop" :> 1)
                       @@ ("guidance_after_step" :> 1) },
        u \in { <<>>,
                "unconditional_model_kwargs" :> ("y" :> 0),
                ("unconditional_drop_model_kwargs" :> ("y" :> 3))
                  @@ ("txt_guidance_drop_ixs" :> {0}),
                ("unconditional_model_kwargs" :> ("y" :> 0))
                  @@ ("unconditional_drop_model_kwargs" :> ("y" :> 3))
                  @@ ("txt_guidance_drop_ixs" :> {0}) } }

\* clip_denoised and denoised_fn of the callers
Postprocessing == { <<TRUE, None>>, <<FALSE, "triple">> }

\* The model_kwargs of the callers of p_sample in SpecSample: no guidance,
\* or guidance at every timestep.
SampleKwargs ==
    { "y" :> 1,
      ("y" :> 1) @@ ("guidance_scale" :> 2)
        @@ ("unconditional_model_kwargs" :> ("y" :> 0)) }

\* the batch x of the callers
XBatch == [b \in 1..BatchSize |-> b]
NoiseValues == {-1, 1}

Callers(M, KW, PP) ==
    { [model |-> m, x |-> XBatch, kw |-> kw, clip_denoised |-> pp[1],
       denoised_fn |-> pp[2]] : m \in M, kw \in KW, pp \in PP }

\* q_sample(caller.x, t, noise) on device dev, t = num_timesteps - 1 for
\* every element (as _prior_bpd builds it) and the noise all ones
QSampleCall(dev) ==
    LET t == [b \in 1..BatchSize |-> num_timesteps - 1]
        noise == [b \in 1..BatchSize |-> 1]
        r == QSample(Self, caller.x, t, dev, noise)
    IN
    /\ pc = "ready"
    /\ tables' = r.st.tables
    /\ tensorized_for' = r.st.tensorized_for
    /\ UNCHANGED <<config_vars, ext, ts_vars, call_vars>>

PMeanVarianceCall(t, dev) ==
    LET r == PMeanVariance(Eng, Self, caller.model, caller.x, t, dev,
                           caller.clip_denoised, caller.denoised_fn, caller.kw)
    IN
    /\ pc = "ready"
    /\ tables' = r.st.tables
    /\ tensorized_for' = r.st.tensorized_for
    /\ caller' = [caller EXCEPT !.kw = r.model_kwargs]
    /\ pc' = "done"
    /\ res' = [op |-> "p_mean_variance", t |-> t, dev |-> dev,
               kw |-> caller.kw, pre |-> Self, ok |-> r.ok, exc |-> r.exc,
               calls |-> r.calls, out |-> r.out]
    /\ UNCHANGED <<config_vars, ext, ts_vars, gen>>

PSampleCall(t, dev, noise) ==
    LET r == PSample(Eng, Self, caller.model, caller.x, t, dev,
                     caller.clip_denoised, caller.denoised_fn, caller.kw, noise)
    IN
    /\ pc = "ready"
    /\ tables' = r.st.tables
    /\ tensorized_for' = r.st.tensorized_for
    /\ caller' = [caller EXCEPT !.kw = r.model_kwargs]
    /\ pc' = "done"
    /\ res' = [op |-> "p_sample", t |-> t, dev |-> dev, noise |-> noise,
               kw |-> caller.kw, pre |-> Self, ok |-> r.ok, exc |-> r.exc,
               calls |-> r.calls, pmv |-> r.pmv, out |-> r.out]
    /\ UNCHANGED <<config_vars, ext, ts_vars, gen>>

QSampleStep == \E dev \in Devices : QSampleCall(dev)

PMeanVarianceStep ==
    \E t \in Batches(0..(num_timesteps - 1)), dev \in Devices :
        PMeanVarianceCall(t, dev)

PSampleStep ==
    \E t \in Batches(0..(num_timesteps - 1)), dev \in Devices,
       noise \in Batches(NoiseValues) :
        PSampleCall(t, dev, noise)

InitPmv ==
    /\ ConstructedEngine
    /\ ext = NoCall
    /\ TsIdle
    /\ caller \in Callers({TrainedModel}, ModelKwargs, Postprocessing)
    /\ pc = "ready"
    /\ res = NoCall
    /\ gen = NoCall

NextPmv == QSampleStep \/ PMeanVarianceStep

SpecPmv == InitPmv /\ [][NextPmv]_vars

\* Specification SpecXstart: a caller of p_mean_variance without guidance,
\* with every combination of clip_denoised and denoised_fn
InitXstart ==
    /\ ConstructedEngine
    /\ ext = NoCall
    /\ TsIdle
    /\ caller \in Callers({TrainedModel}, {"y" :> 1},
                          BOOLEAN \X {None, "triple"})
    /\ pc = "ready"
    /\ res = NoCall
    /\ gen = NoCall

NextXstart == PMeanVarianceStep

\* The model_kwargs of the callers of SpecDrop: a positive guidance scale,
\* and the unconditional kwargs, their drop variant or both, with or
\* without a timestep list that holds timestep 0.
DropKwargs ==
    { ("y" :> 1) @@ ("guidance_scale" :> 2) @@ u @@ d :
        u \in { "unconditional_model_kwargs" :> ("y" :> 0),
                "unconditional_drop_model_kwargs" :> ("y" :> 3),
                ("unconditional_model_kwargs" :> ("y" :> 0))
                  @@ ("unconditional_drop_model_kwargs" :> ("y" :> 3)) },
        d \in { <<>>, "txt_guidance_drop_ixs" :> {0} } }

\* Specification SpecDrop: a caller of p_mean_variance with guidance and
\* txt_guidance_drop_ixs
InitDrop ==
    /\ ConstructedEngine
    /\ ext = NoCall
    /\ TsIdle
    /\ caller \in Callers({TrainedModel}, DropKwargs, {<<TRUE, None>>})
    /\ pc = "ready"
    /\ res = NoCall
    /\ gen = NoCall

NextDrop == PMeanVarianceStep

SpecDrop == InitDrop /\ [][NextDrop]_vars

SpecXstart == InitXstart /\ [][NextXstart]_vars

InitSample ==
    /\ ConstructedEngine
    /\ rescale_timesteps = FALSE
    /\ ext = NoCall
    /\ TsIdle
    /\ caller \in Callers({TrainedModel, DivergedModel}, SampleKwargs,
                          {<<TRUE, None>>})
    /\ pc = "ready"
    /\ res = NoCall
    /\ gen = NoCall

NextSample == QSampleStep \/ PSampleStep

SpecSample == InitSample /\ [][NextSample]_vars

\* the values of eta the callers of ddim_reverse_sample pass
EtaValues == {0, 1}

DdimReverseSampleCall(t, dev, eta) ==
    LET r == DdimReverseSample(Eng, Self, caller.model, caller.x, t, dev,
                               caller.clip_denoised, caller.denoised_fn,
                               caller.kw, eta)
    IN
    /\ pc = "ready"
    /\ tables' = r.st.tables
    /\ tensorized_for' = r.st.tensorized_for
    /\ pc' = "done"
    /\ res' = [op |-> "ddim_reverse_sample", t |-> t, dev |-> dev,
               eta |-> eta, pre |-> Self, ok |-> r.ok, exc |-> r.exc,
               calls |-> r.calls, out |-> r.out]
    /\ UNCHANGED <<config_vars, ext, ts_vars, caller, gen>>

DdimReverseSampleStep ==
    \E t \in Batches(0..(num_timesteps - 1)), dev \in Devices,
       eta \in EtaValues :
        DdimReverseSampleCall(t, dev, eta)

\* Specification SpecRev: a caller of q_sample, then of ddim_reverse_sample
NextRev == QSampleStep \/ DdimReverseSampleStep

SpecRev == InitSample /\ [][NextRev]_vars

----------------------------------------------------------------------------
(* ddim_reverse_sample: properties *)

DdimReverseCalled == res.op = "ddim_reverse_sample"

\* C11: ddim_reverse_sample with eta # 0 fails with an assertion before the
\* model is evaluated and with the parameter cache as it was before the
\* call; with eta = 0 the assertion passes (no AssertionError is raised).
C11_NonzeroEtaAsserts ==
    DdimReverseCalled =>
        IF res.eta # 0
        THEN /\ ~ res.ok
             /\ res.exc = "AssertionError"
             /\ res.calls = <<>>
             /\ Self = res.pre
        ELSE /\ res.exc # "AssertionError"
             /\ res.calls # <<>>

\* ddim_reverse_sample was called with eta # 0 on an engine whose tables
\* are tensorized for another device than the one of the call
C11_Witness ==
    /\ DdimReverseCalled
    /\ res.eta # 0
    /\ res.exc = "AssertionError"
    /\ res.pre.tensorized_for \notin {None, res.dev}

\* ddim_reverse_sample was called with eta = 0 on an engine whose parameter
\* cache was not on another device
DdimReverseRan ==
    /\ DdimReverseCalled
    /\ res.eta = 0
    /\ res.pre.tensorized_for \in {None, res.dev}

\* the result of ddim_reverse_sample for the batch element b, from the x_0
\* estimate pred and the tables at res.t[b]
ReverseSampleAt(b, pred) ==
    Fit(pred * Sqrt(TableValue("alphas_cumprod_next", res.t[b]))
          + Sqrt(1 - TableValue("alphas_cumprod_next", res.t[b]))
              * Fit((TableValue("sqrt_recip_alphas_cumprod", res.t[b])
                       * caller.x[b] - pred)
                      \div TableValue("sqrt_recipm1_alphas_cumprod", res.t[b])))

\* C28: ddim_reverse_sample at timestep t obtains its x_0 estimate from
\* p_mean_variance at t+1 (the model is called at t+1), while eps and
\* alpha_bar_next are read from the tables at t; every index used lies in
\* 0..T-1 only for t <= T-2: a call with t = T-1 requests timestep T,
\* outside the range of the tables, and fails there.
C28_ReverseEstimateAtNextTimestep ==
    DdimReverseRan =>
        /\ res.calls # <<>>
        /\ \A i \in DOMAIN res.calls :
              res.calls[i].t
                = ScaleTimesteps(rescale_timesteps, num_timesteps,
                                 [b \in 1..BatchSize |-> res.t[b] + 1])
        /\ res.ok =>
              /\ \A b \in 1..BatchSize : res.t[b] + 1 \in 0..(num_timesteps - 1)
              /\ res.out.pred_xstart
                   = PMeanVariance(Eng, res.pre, caller.model, caller.x,
                                   [b \in 1..BatchSize |-> res.t[b] + 1],
                                   res.dev, caller.clip_denoised,
                                   caller.denoised_fn, caller.kw).out.pred_xstart
              /\ \A b \in 1..BatchSize :
                    res.out.sample[b]
                      = ReverseSampleAt(b, res.out.pred_xstart[b])
        /\ (\E b \in 1..BatchSize : res.t[b] = num_timesteps - 1) =>
              /\ ~ res.ok
              /\ IsLearned(model_var_type) =>
                    res.exc \in {"IndexError", "RuntimeError"}

\* a call with t = T-1 for an element of the batch failed at timestep T
C28_Witness ==
    /\ DdimReverseRan
    /\ IsLearned(model_var_type)
    /\ \E b \in 1..BatchSize : res.t[b] = num_timesteps - 1
    /\ res.exc = "IndexError"

\* a call with t <= T-2 returned
C28_ReverseReturned ==
    /\ DdimReverseRan
    /\ res.ok
    /\ \A b \in 1..BatchSize : res.t[b] <= num_timesteps - 2

----------------------------------------------------------------------------
(* p_sample and p_mean_variance: properties *)

PSampleReturned == res.op = "p_sample" /\ res.ok

\* C7: for every batch element whose timestep is 0 the sample returned by
\* p_sample equals the mean returned by p_mean_variance, whatever the noise
\* and the log-variance; an element with t # 0 receives
\* mean + exp(0.5 * log_variance) * noise.
C7_SampleAtZeroIsMean ==
    PSampleReturned =>
        \A b \in DOMAIN res.t :
            IF res.t[b] = 0
            THEN res.out.sample[b] = res.pmv.mean[b]
            ELSE res.out.sample[b]
                   = FAdd(res.pmv.mean[b],
                          MaskedNoise(1, ExpHalf(res.pmv.log_variance[b]),
                                      res.noise[b]))

\* p_sample returned for a batch that mixes t = 0 and t # 0, and the
\* exponential of half the log-variance of a t = 0 element overflowed
C7_OverflowAtZero ==
    /\ PSampleReturned
    /\ \E b, c \in DOMAIN res.t :
          /\ res.t[b] = 0
          /\ res.t[c] # 0
          /\ ExpHalf(res.pmv.log_variance[b]) = Inf

PMeanVarianceCalled == res.op = "p_mean_variance"

\* The same p_mean_variance call as the one recorded in res, made with the
\* model_kwargs kw instead.
SameCallWith(kw) ==
    PMeanVariance(Eng, res.pre, caller.model, caller.x, res.t, res.dev,
                  caller.clip_denoised, caller.denoised_fn, kw)

\* C8: with guidance_scale = 0 in model_kwargs, with or without an
\* unconditional context, p_mean_variance does exactly what the same call
\* without any guidance key does: the same model calls, the same returned
\* dict (or the same exception) and the same parameter cache afterwards.
C8_ZeroScaleIsUnguided ==
    (PMeanVarianceCalled /\ Has(res.kw, "guidance_scale")
                         /\ res.kw["guidance_scale"] = 0) =>
        LET r == SameCallWith([k \in (DOMAIN res.kw) \ DropArgs |-> res.kw[k]])
        IN /\ res.ok = r.ok
           /\ res.exc = r.exc
           /\ res.out = r.out
           /\ res.calls = r.calls
           /\ Self = r.st

\* p_mean_variance returned for an epsilon model, a zero guidance scale and
\* an unconditional context
C8_Witness ==
    /\ PMeanVarianceCalled
    /\ res.ok
    /\ model_mean_type = "EPSILON"
    /\ Has(res.kw, "guidance_scale")
    /\ res.kw["guidance_scale"] = 0
    /\ Has(res.kw, UnconditionalKey(res.kw, res.t))

\* C9: the keyword arguments of the conditional model call (the first call)
\* hold none of the six guidance keys and every other key of model_kwargs
\* with its value; the caller's model_kwargs is the same mapping after the
\* call as before.
C9_GuidanceKeysStripped ==
    PMeanVarianceCalled =>
        LET cond_kw == res.calls[1].kwargs IN
        /\ Len(res.calls) >= 1
        /\ (DOMAIN cond_kw) \cap DropArgs = {}
        /\ \A k \in (DOMAIN res.kw) \ DropArgs :
              k \in DOMAIN cond_kw /\ cond_kw[k] = res.kw[k]
        /\ caller.kw = res.kw

\* a guided call: the model_kwargs held all six guidance keys and the model
\* was called twice
C9_Witness ==
    /\ PMeanVarianceCalled
    /\ DropArgs \subseteq DOMAIN res.kw
    /\ Len(res.calls) = 2

\* C10: for every combination of mean type and variance type, a
\* p_mean_variance call on an engine whose tables are numpy arrays or are
\* resident on the device of the call returns a dict holding mean, variance,
\* log_variance, pred_xstart and model_var_values.
C10_ReturnsForEveryTypeCombination ==
    (PMeanVarianceCalled /\ res.pre.tensorized_for \in {None, res.dev}) =>
        /\ res.ok
        /\ DOMAIN res.out = {"mean", "variance", "log_variance",
                             "pred_xstart", "model_var_values"}

\* Engines with a learned variance do return the five fields.
C10_LearnedVarianceReturns ==
    (/\ PMeanVarianceCalled
     /\ res.pre.tensorized_for \in {None, res.dev}
     /\ IsLearned(model_var_type)) =>
        /\ res.ok
        /\ DOMAIN res.out = {"mean", "variance", "log_variance",
                             "pred_xstart", "model_var_values"}

\* No p_mean_variance call returns on an engine with a fixed variance.
C10_FixedVarianceNeverReturns ==
    (PMeanVarianceCalled /\ ~ IsLearned(model_var_type)) => ~ res.ok

\* guidance is active in the call recorded in res: an epsilon model, the
\* unconditional context of the batch's timesteps is in model_kwargs, and
\* the guidance scale is positive for an element with t below
\* guidance_after_step
GuidanceActive ==
    /\ model_mean_type = "EPSILON"
    /\ IF /\ "txt_guidance_drop_ixs" \in DOMAIN res.kw
          /\ \E b \in 1..BatchSize : res.t[b] \in res.kw["txt_guidance_drop_ixs"]
       THEN "unconditional_drop_model_kwargs" \in DOMAIN res.kw
       ELSE "unconditional_model_kwargs" \in DOMAIN res.kw
    /\ "guidance_scale" \in DOMAIN res.kw
    /\ res.kw["guidance_scale"] > 0
    /\ \E b \in 1..BatchSize :
          res.t[b] < (IF "guidance_after_step" \in DOMAIN res.kw
                      THEN res.kw["guidance_after_step"]
                      ELSE GuidanceAfterStepDefault)

\* the unconditional context of the call recorded in res
UnconditionalContext ==
    IF /\ "txt_guidance_drop_ixs" \in DOMAIN res.kw
       /\ \E b \in 1..BatchSize : res.t[b] \in res.kw["txt_guidance_drop_ixs"]
    THEN res.kw["unconditional_drop_model_kwargs"]
    ELSE res.kw["unconditional_model_kwargs"]

\* The x_0 estimate of the unguided call recorded in res for the batch
\* element b, before process_xstart: the model output (START_X), or what
\* _predict_xstart_from_xprev or _predict_xstart_from_eps compute of it
X0Estimate(b) ==
    LET out == ModelCall(caller.model, caller.x,
                         ScaleTimesteps(rescale_timesteps, num_timesteps, res.t),
                         res.kw)[b].m
    IN CASE model_mean_type = "PREVIOUS_X" ->
              TableValue("recip_posterior_mean_coef1", res.t[b]) * out
                - TableValue("posterior_mean_coef2_over_coef1", res.t[b])
                    * caller.x[b]
         [] model_mean_type = "START_X" -> out
         [] model_mean_type = "EPSILON" ->
              TableValue("sqrt_recip_alphas_cumprod", res.t[b]) * caller.x[b]
                - TableValue("sqrt_recipm1_alphas_cumprod", res.t[b]) * out

\* C25: in p_mean_variance the clamp is applied after denoised_fn: with
\* clip_denoised every element of pred_xstart lies in [-1, 1], for every
\* mean type and every denoised_fn, and is the clamped value of what
\* denoised_fn returns; without clip_denoised and without denoised_fn
\* pred_xstart is the x_0 estimate, unmodified.
C25_ClampAfterDenoisedFn ==
    (PMeanVarianceCalled /\ res.ok) =>
        \A b \in 1..BatchSize :
            /\ caller.clip_denoised =>
                  /\ res.out.pred_xstart[b] \in -1..1
                  /\ res.out.pred_xstart[b]
                       = Clamp(IF caller.denoised_fn = None THEN X0Estimate(b)
                               ELSE ApplyDenoisedFn(caller.denoised_fn,
                                                    X0Estimate(b)),
                               -1, 1)
            /\ (~ caller.clip_denoised /\ caller.denoised_fn = None) =>
                  res.out.pred_xstart[b] = X0Estimate(b)

\* a call with clip_denoised and a denoised_fn returned, for an estimate
\* outside [-1, 1] that the clamp had to bring back
C25_Witness ==
    /\ PMeanVarianceCalled
    /\ res.ok
    /\ caller.clip_denoised
    /\ caller.denoised_fn = "triple"
    /\ \E b \in 1..BatchSize :
          /\ X0Estimate(b) \notin -1..1
          /\ res.out.pred_xstart[b] \in {-1, 1}

\* a call without clip_denoised and without denoised_fn returned an
\* estimate outside [-1, 1]
C25_UnmodifiedReturned ==
    /\ PMeanVarianceCalled
    /\ res.ok
    /\ ~ caller.clip_denoised
    /\ caller.denoised_fn = None
    /\ \E b \in 1..BatchSize : res.out.pred_xstart[b] \notin -1..1

\* a timestep of the batch of the call recorded in res is in
\* txt_guidance_drop_ixs
DropRequested ==
    /\ "txt_guidance_drop_ixs" \in DOMAIN res.kw
    /\ \E b \in 1..BatchSize : res.t[b] \in res.kw["txt_guidance_drop_ixs"]

\* the call recorded in res made one model call, with the conditional
\* context, and its result is the one of the call without any guidance key
UnguidedCall ==
    /\ Len(res.calls) = 1
    /\ res.calls[1].kwargs = [k \in (DOMAIN res.kw) \ DropArgs |-> res.kw[k]]
    /\ res.ok = SameCallWith([k \in (DOMAIN res.kw) \ DropArgs |-> res.kw[k]]).ok
    /\ res.out = SameCallWith([k \in (DOMAIN res.kw) \ DropArgs |-> res.kw[k]]).out

\* the call recorded in res made two model calls, the second with the
\* context ctx
GuidedCallWith(ctx) ==
    /\ Len(res.calls) = 2
    /\ res.calls[2].kwargs = ctx

\* C29: when a timestep of the batch is in txt_guidance_drop_ixs,
\* p_mean_variance takes the unconditional context from
\* unconditional_drop_model_kwargs only: if that key is absent, guidance is
\* inactive (one model call, the output not blended) even when
\* unconditional_model_kwargs is present and guidance_scale > 0; when no
\* timestep is in the set, unconditional_model_kwargs is used.  (EPSILON
\* engines, guidance_scale > 0 at every timestep of the batch.)
C29_DropContextOnly ==
    (/\ PMeanVarianceCalled
     /\ model_mean_type = "EPSILON"
     /\ "guidance_scale" \in DOMAIN res.kw
     /\ res.kw["guidance_scale"] > 0
     /\ "guidance_after_step" \notin DOMAIN res.kw) =>
        IF DropRequested
        THEN IF "unconditional_drop_model_kwargs" \in DOMAIN res.kw
             THEN GuidedCallWith(res.kw["unconditional_drop_model_kwargs"])
             ELSE UnguidedCall
        ELSE IF "unconditional_model_kwargs" \in DOMAIN res.kw
             THEN GuidedCallWith(res.kw["unconditional_model_kwargs"])
             ELSE UnguidedCall

\* a call with a timestep in txt_guidance_drop_ixs, with
\* unconditional_model_kwargs and without unconditional_drop_model_kwargs,
\* returned after one model call
C29_Witness ==
    /\ PMeanVarianceCalled
    /\ model_mean_type = "EPSILON"
    /\ res.ok
    /\ DropRequested
    /\ res.kw["guidance_scale"] > 0
    /\ "unconditional_model_kwargs" \in DOMAIN res.kw
    /\ "unconditional_drop_model_kwargs" \notin DOMAIN res.kw
    /\ Len(res.calls) = 1

\* a call with both contexts and no timestep in txt_guidance_drop_ixs
\* returned
C29_PlainContextUsed ==
    /\ PMeanVarianceCalled
    /\ model_mean_type = "EPSILON"
    /\ res.ok
    /\ ~ DropRequested
    /\ "txt_guidance_drop_ixs" \in DOMAIN res.kw
    /\ "unconditional_drop_model_kwargs" \in DOMAIN res.kw
    /\ GuidedCallWith(res.kw["unconditional_model_kwargs"])

\* C19: p_mean_variance calls the model once when guidance is inactive and
\* twice when it is active, first with the conditional context and then
\* with the unconditional context; guidance is active exactly when the mean
\* type is EPSILON, an unconditional context was selected and
\* guidance_scale is positive for a batch element with
\* t < guidance_after_step.
C19_OneCallOrTwo ==
    PMeanVarianceCalled =>
        IF GuidanceActive
        THEN /\ Len(res.calls) = 2
             /\ res.calls[1].kwargs = [k \in (DOMAIN res.kw) \ DropArgs |-> res.kw[k]]
             /\ res.calls[2].kwargs = UnconditionalContext
        ELSE /\ Len(res.calls) = 1
             /\ res.calls[1].kwargs = [k \in (DOMAIN res.kw) \ DropArgs |-> res.kw[k]]

\* a guided call whose unconditional context is the drop variant returned
C19_Witness ==
    /\ PMeanVarianceCalled
    /\ res.ok
    /\ GuidanceActive
    /\ "txt_guidance_drop_ixs" \in DOMAIN res.kw
    /\ "unconditional_model_kwargs" \notin DOMAIN res.kw
    /\ Len(res.calls) = 2

\* the call recorded in res is guided and the variance is learned
GuidedLearnedCall ==
    /\ PMeanVarianceCalled
    /\ IsLearned(model_var_type)
    /\ Len(res.calls) = 2

\* The same p_mean_variance call as the one recorded in res, the variance
\* channels of the conditional output being d larger.
SameCallWithConditionalVariance(mc, d) ==
    PmvAfterModel(Eng, res.pre, caller.x, res.t, res.dev, caller.clip_denoised,
                  caller.denoised_fn, res.kw,
                  [mc EXCEPT ![1].output =
                      [b \in DOMAIN @ |-> [@[b] EXCEPT !.v = @ + d]]])

\* the two results return (or raise) alike, with the same variance,
\* log_variance and model_var_values
SameVariance(r1, r2) ==
    /\ r1.ok = r2.ok
    /\ r1.exc = r2.exc
    /\ r1.ok => /\ r1.out.variance = r2.out.variance
                /\ r1.out.log_variance = r2.out.log_variance
                /\ r1.out.model_var_values = r2.out.model_var_values

\* C20: when guidance is active and the variance is learned, the variance
\* channels come from the unconditional pass only: the call with other
\* variance channels in the conditional output, and the call with another
\* (positive) guidance scale, give the same variance, log_variance and
\* model_var_values for every batch element, and model_var_values holds the
\* variance channels of the unconditional output.
C20_VarianceFromUnconditionalPass ==
    GuidedLearnedCall =>
        /\ SameVariance(res,
                        SameCallWithConditionalVariance(
                            ModelCalls(Eng, caller.model, caller.x, res.t, res.kw),
                            2))
        /\ SameVariance(res,
                        SameCallWith([res.kw EXCEPT !["guidance_scale"] = @ + 1]))
        /\ res.ok =>
              \A b \in 1..BatchSize :
                  res.out.model_var_values[b]
                    = ModelCall(caller.model, caller.x, res.calls[2].t,
                                UnconditionalContext)[b].v

\* a guided call on a LEARNED_RANGE engine returned, the variance channels
\* of its two passes differing for some element
C20_Witness ==
    /\ GuidedLearnedCall
    /\ res.ok
    /\ model_var_type = "LEARNED_RANGE"
    /\ \E b \in 1..BatchSize :
          ModelCall(caller.model, caller.x, res.calls[1].t,
                    res.calls[1].kwargs)[b].v
            # res.out.model_var_values[b]

----------------------------------------------------------------------------
(* Specification SpecLoop: a consumer of a progressive sampler, or a       *)
(* caller of the final form of a sampler                                   *)

\* The model_kwargs of the callers of the samplers: no guidance keys, an
\* unconditional context with guidance_scale 0, or with guidance_scale 2.
LoopKwargs ==
    { "y" :> 1 }
    \cup { ("y" :> 1) @@ ("guidance_scale" :> v)
             @@ ("unconditional_model_kwargs" :> ("y" :> 0)) : v \in {0, 2} }

\* th.randn / th.randn_like: the noise a step draws
NoiseDraws == { [b \in 1..BatchSize |-> v] : v \in NoiseValues }

\* what a next() or a drain of a generator works on
LoopState(frame) ==
    [st |-> Self, cache |-> ts_cache, nbuilds |-> TsTotalBuilds, built |-> {},
     frame |-> frame]

\* the engine and the cache of _ts_index_range become what S holds
LoopStateWritten(S) ==
    /\ tables' = S.st.tables
    /\ tensorized_for' = S.st.tensorized_for
    /\ ts_cache' = S.cache
    /\ ts_builds' = [k \in DOMAIN ts_builds |->
                        IF k \in S.built THEN ts_builds[k] + 1 ELSE ts_builds[k]]

\* generator = diffusion.<kind>_sample_loop_progressive(model, shape, noise, ...)
StartProgressive(kind, device) ==
    /\ pc = "ready"
    /\ pc' = "consuming"
    /\ gen' = NewGenerator(kind, device)
    /\ UNCHANGED <<engine_vars, ext, ts_vars, caller, res>>

\* the consumer's generator is what the next() left
Resumed(S) ==
    /\ LoopStateWritten(S)
    /\ gen' = S.frame

\* next(generator)
NextItem(noise) ==
    /\ pc = "consuming"
    /\ gen.state \in {"created", "suspended"}
    /\ Resumed(Resume(Eng, LoopState(gen), caller, noise))
    /\ UNCHANGED <<config_vars, ext, ts_ret, caller, pc, res>>

\* the consumer leaves its loop and drops the generator
StopConsuming ==
    /\ pc = "consuming"
    /\ gen.state = "suspended"
    /\ pc' = "stopped"
    /\ UNCHANGED <<engine_vars, ext, ts_vars, caller, res, gen>>

\* the final form returns after its loop over the generator, S being the
\* state the loop left
Drained(kind, device, S) ==
    /\ LoopStateWritten(S)
    /\ res' = [op |-> "sample_loop", kind |-> kind, device |-> device,
               frame |-> S.frame] @@ SampleLoopReturn(S)

\* diffusion.<kind>_sample_loop(model, shape, noise, ...) with the noise
\* draws of its steps
SampleLoopCall(kind, device, draws) ==
    /\ pc = "ready"
    /\ Drained(kind, device,
               Drain(Eng, LoopState(NewGenerator(kind, device)), caller, draws, 1))
    /\ pc' = "returned"
    /\ UNCHANGED <<config_vars, ext, ts_ret, caller, gen>>

Start == \E kind \in SamplerKinds, device \in Devices : StartProgressive(kind, device)

Consume == \E noise \in NoiseDraws : NextItem(noise)

SampleLoop ==
    \E kind \in SamplerKinds, device \in Devices,
       draws \in [1..2 -> NoiseDraws] :
        SampleLoopCall(kind, device, draws)

InitLoop ==
    /\ ConstructedEngineUpTo(MaxLoopT)
    /\ rescale_timesteps = FALSE
    /\ ext = NoCall
    /\ TsIdle
    /\ caller \in Callers({TrainedModel}, LoopKwargs, {<<TRUE, None>>})
    /\ pc = "ready"
    /\ res = NoCall
    /\ gen = NoCall

NextLoop == Start \/ Consume \/ StopConsuming \/ SampleLoop

SpecLoop == InitLoop /\ [][NextLoop]_vars

----------------------------------------------------------------------------
(* The sampling loops: properties *)

\* the frame f yielded a result at each of the timesteps T-1, ..., 0, the
\* first computed from the supplied noise and every later one from the
\* sample yielded before it
DescendingChain(f) ==
    /\ Len(f.yielded) = num_timesteps
    /\ \A k \in 1..Len(f.yielded) :
          /\ f.yielded[k].t = [b \in 1..BatchSize |-> num_timesteps - k]
          /\ f.yielded[k].x = IF k = 1 THEN caller.x
                              ELSE f.yielded[k - 1].out.sample

\* C4: p_sample_loop_progressive and ddim_sample_loop_progressive yield
\* exactly T results (they do not fail), the k-th (k = 0..T-1) computed at
\* timestep T-1-k for every batch element, the first from the supplied
\* noise and every later one from the sample yielded before it.
C4_ProgressiveYieldsT ==
    (gen.op = "generator" /\ gen.kind \in {"p", "ddim"}) =>
        /\ gen.state # "failed"
        /\ gen.state = "done" => DescendingChain(gen)

\* On an engine with a learned variance the two generators do so.
C4_LearnedVarianceYieldsT ==
    (gen.op = "generator" /\ gen.kind \in {"p", "ddim"}
                          /\ IsLearned(model_var_type)) =>
        /\ gen.state # "failed"
        /\ gen.state = "done" => DescendingChain(gen)

\* On an engine with a fixed variance they yield nothing: the first next()
\* raises.
C4_FixedVarianceYieldsNothing ==
    (gen.op = "generator" /\ gen.kind \in {"p", "ddim"}
                          /\ ~ IsLearned(model_var_type)) =>
        /\ gen.yielded = <<>>
        /\ gen.state \in {"created", "failed"}

\* C5: the final form of each sampler returns the 'sample' of the last item
\* its progressive form yields; it does not fail.
C5_FinalFormReturnsLastSample ==
    res.op = "sample_loop" =>
        /\ res.ok
        /\ res.frame.yielded # <<>>
        /\ res.out.sample
             = res.frame.yielded[Len(res.frame.yielded)].out.sample

\* prk_sample_loop and plms_sample_loop fail on every engine with two
\* timesteps.
C5_TwoStepEnginesFail ==
    (res.op = "sample_loop" /\ res.kind \in {"prk", "plms"}
                            /\ num_timesteps = 2) => ~ res.ok

\* the caller's model_kwargs leave guidance inactive
GuidanceInactive ==
    \/ ~ Has(caller.kw, "unconditional_model_kwargs")
    \/ caller.kw["guidance_scale"] <= 0
    \/ model_mean_type # "EPSILON"

\* C6: after the consumer has taken k items from p_sample_loop_progressive
\* with guidance inactive, the model has been called exactly k times (one
\* more when the last request raised instead of yielding), none before the
\* first request and none after the generator is exhausted or dropped.
C6_OneModelCallPerItemTaken ==
    (gen.op = "generator" /\ gen.kind = "p" /\ GuidanceInactive) =>
        gen.model_calls = Len(gen.yielded)
                            + (IF gen.state = "failed" THEN 1 ELSE 0)

\* C6: the model is evaluated only by a step that requests an item.
C6_ModelCalledOnlyOnRequest ==
    [][(gen.op = "generator" /\ gen'.model_calls # gen.model_calls) =>
          /\ pc = "consuming"
          /\ gen.state \in {"created", "suspended"}
          /\ Len(gen'.yielded) = Len(gen.yielded) + 1
             \/ gen'.state = "failed"]_vars

\* the consumer took two items from p_sample_loop_progressive, guidance
\* inactive despite an unconditional context, and stopped
C6_Witness ==
    /\ gen.op = "generator"
    /\ gen.kind = "p"
    /\ Has(caller.kw, "unconditional_model_kwargs")
    /\ GuidanceInactive
    /\ Len(gen.yielded) = 2
    /\ gen.model_calls = 2
    /\ pc = "stopped"

----------------------------------------------------------------------------
(* Beta schedules and the constructor: numbers *)

\* A float is represented exactly, by a fraction <<numerator, denominator>>
\* with a positive denominator.
RLess(a, b) == a[1] * b[2] < b[1] * a[2]
RLeq(a, b) == a[1] * b[2] <= b[1] * a[2]
REq(a, b) == a[1] * b[2] = b[1] * a[2]
RMul(a, b) == << a[1] * b[1], a[2] * b[2] >>
\* 1.0 - a
ROneMinus(a) == << a[2] - a[1], a[2] >>
RZero == << 0, 1 >>
ROne == << 1, 1 >>

----------------------------------------------------------------------------
(* get_named_beta_schedule *)

\* np.linspace(start, stop, num) for num >= 1, start = s / den and
\* stop = e / den: num evenly spaced values, the first is start and (for
\* num > 1) the last is stop
Linspace(s, e, den, num) ==
    IF num = 1 THEN << << s, den >> >>
    ELSE [k \in 1..num |->
            << s * (num - 1) + (k - 1) * (e - s), den * (num - 1) >>]

\* The numerator of alpha_bar(i / T) over the denominator (126 * T)^2,
\* alpha_bar(t) = cos((t + 0.008) / 1.008 * pi / 2) ** 2.  The squared
\* cosine of u * pi / 2 is represented by 1 - u^2, which like it falls from
\* 1 at u = 0 to 0 at u = 1; u = (125 * i + T) / (126 * T).
AlphaBar(i, T) == (126 * T) * (126 * T) - (125 * i + T) * (125 * i + T)

\* max_beta = 0.999
MaxBeta == << 999, 1000 >>

BetasForAlphaBarShort(T) == [i \in 1..(T - 1) |-> MaxBeta]

\* betas_for_alpha_bar(T, alpha_bar): beta_i = min(1 - alpha_bar(t2) /
\* alpha_bar(t1), max_beta) for i = 0..T-1
BetasForAlphaBar(T) ==
    [k \in 1..T |->
        \* 1 - a2 / a1 >= 999 / 1000 exactly when 1000 * a2 <= a1
        IF AlphaBar(k, T) <= AlphaBar(k - 1, T) \div 1000
        THEN MaxBeta
        ELSE << AlphaBar(k - 1, T) - AlphaBar(k, T), AlphaBar(k - 1, T) >>]

\* get_named_beta_schedule(schedule_name, num_diffusion_timesteps):
\* scale = 1000 / T, beta_start = scale * 0.0001 = 1 / (10 T),
\* beta_end = scale * 0.02 = 200 / (10 T)
GetNamedBetaSchedule(schedule_name, T) ==
    CASE schedule_name = "linear" ->
            [ok |-> TRUE, exc |-> None, betas |-> Linspace(1, 200, 10 * T, T)]
      [] schedule_name = "cosine" ->
            [ok |-> TRUE, exc |-> None, betas |-> BetasForAlphaBar(T)]
      [] OTHER ->
            [ok |-> FALSE, exc |-> "NotImplementedError", betas |-> <<>>]

\* assert (betas > 0).all() and (betas <= 1).all()
BetasInRange(betas) ==
    \A k \in DOMAIN betas : RLess(RZero, betas[k]) /\ RLeq(betas[k], ROne)

----------------------------------------------------------------------------
(* GaussianDiffusion.__init__ *)

RDiv(a, b) == << a[1] * b[2], a[2] * b[1] >>

\* The result of a numpy function that is not computed exactly here
\* (np.sqrt, np.log, np.clip, ...): the function and its arguments.
Term(f, a) == [fn |-> f, of |-> a]

\* np.cumprod(1.0 - betas, axis=0)
RECURSIVE AlphasCumprod(_)
AlphasCumprod(betas) ==
    IF betas = <<>> THEN <<>>
    ELSE IF Len(betas) = 1 THEN << ROneMinus(betas[1]) >>
    ELSE Append(AlphasCumprod(SubSeq(betas, 1, Len(betas) - 1)),
                RMul(AlphasCumprod(SubSeq(betas, 1, Len(betas) - 1))[Len(betas) - 1],
                     ROneMinus(betas[Len(betas)])))

\* np.append(1.0, alphas_cumprod[:-1])
AlphasCumprodPrev(ac) == << ROne >> \o SubSeq(ac, 1, Len(ac) - 1)

\* np.append(alphas_cumprod[1:], 0.0)
AlphasCumprodNext(ac) == SubSeq(ac, 2, Len(ac)) \o << RZero >>

\* betas * (1.0 - alphas_cumprod_prev) / (1.0 - alphas_cumprod)
PosteriorVariance(betas, ac, prev) ==
    [k \in DOMAIN betas |->
        RDiv(RMul(betas[k], ROneMinus(prev[k])), ROneMinus(ac[k]))]

\* np.log(np.append(posterior_variance[1], posterior_variance[1:]))
PosteriorLogVarianceClipped(pv) ==
    [k \in 1..Len(pv) |-> Term("log", IF k = 1 THEN pv[2] ELSE pv[k])]

\* the attributes of self that hold an array when __init__ returns
InitTables(betas, ac, prev, next, pv) ==
    LET each(f, a) == [k \in DOMAIN a |-> Term(f, a[k])] IN
    [n \in TableNames |->
        CASE n = "betas" -> betas
          [] n = "log_betas" -> each("log", betas)
          [] n = "alphas_cumprod" -> ac
          [] n = "alphas_cumprod_prev" -> prev
          [] n = "alphas_cumprod_next" -> next
          [] n = "sqrt_alphas_cumprod" -> each("sqrt", ac)
          [] n = "sqrt_one_minus_alphas_cumprod" ->
                [k \in DOMAIN ac |-> Term("sqrt", ROneMinus(ac[k]))]
          [] n = "log_one_minus_alphas_cumprod" ->
                [k \in DOMAIN ac |-> Term("log", ROneMinus(ac[k]))]
          [] n = "sqrt_recip_alphas_cumprod" -> each("sqrt_recip", ac)
          [] n = "sqrt_recipm1_alphas_cumprod" -> each("sqrt_recipm1", ac)
          [] n = "one_minus_alphas_cumprod" ->
                [k \in DOMAIN ac |-> ROneMinus(ac[k])]
          [] n = "recip_snrp1_clipped" ->
                [k \in DOMAIN ac |-> Term("clip", ROneMinus(ac[k]))]
          [] n = "posterior_variance" -> pv
          [] n = "posterior_log_variance_clipped" ->
                PosteriorLogVarianceClipped(pv)
          [] n = "posterior_mean_coef1" ->
                [k \in DOMAIN betas |-> Term("coef1", << betas[k], prev[k], ac[k] >>)]
          [] n = "posterior_mean_coef2" ->
                [k \in DOMAIN betas |-> Term("coef2", << betas[k], prev[k], ac[k] >>)]
          [] n = "snr" -> each("snr", ac)]

InitRaise(exc) == [ok |-> FALSE, exc |-> exc, arrays |-> <<>>]

\* __init__ from the posterior calculations on:
\* self.posterior_variance[1] needs two timesteps
InitPosterior(betas, ac, prev, next, pv) ==
    IF Len(pv) < 2 THEN InitRaise("IndexError")
    ELSE [ok |-> TRUE, exc |-> None,
          arrays |-> InitTables(betas, ac, prev, next, pv)]

\* __init__ after alphas_cumprod_prev is computed:
\* assert self.alphas_cumprod_prev.shape == (self.num_timesteps,)
InitFromCumprod(betas, ac, prev) ==
    IF Len(prev) # Len(betas) THEN InitRaise("AssertionError")
    ELSE InitPosterior(betas, ac, prev, AlphasCumprodNext(ac),
                       PosteriorVariance(betas, ac, prev))

InitFromAlphas(betas, ac) == InitFromCumprod(betas, ac, AlphasCumprodPrev(ac))

\* GaussianDiffusion.__init__(betas=betas, ...), betas a 1-D sequence
GaussianDiffusionInit(betas) ==
    IF ~ BetasInRange(betas) THEN InitRaise("AssertionError")
    ELSE InitFromAlphas(betas, AlphasCumprod(betas))

----------------------------------------------------------------------------
(* Specification SpecInit: a caller of get_named_beta_schedule, or of the   *)
(* constructor                                                              *)

ScheduleNames == {"linear", "cosine", "quadratic", "Linear", ""}

\* the betas callers pass to the constructor: 0, 0.1, 0.5, 1 and 1.5
BetaValues == { << 0, 10 >>, << 1, 10 >>, << 5, 10 >>, << 10, 10 >>, << 15, 10 >> }

BetaLists == UNION { [1..n -> BetaValues] : n \in 0..MaxBetas }

\* get_named_beta_schedule(schedule_name, T)
ScheduleCall(schedule_name, T) ==
    /\ pc = "ready"
    /\ pc' = "done"
    /\ res' = [op |-> "schedule", name |-> schedule_name, T |-> T]
                @@ GetNamedBetaSchedule(schedule_name, T)
    /\ UNCHANGED <<engine_vars, ext, ts_vars, caller, gen>>

\* what the constructor leaves: the engine, or nothing when it raised
Constructed(betas, mean_type, var_type, rescale, r) ==
    /\ pc = "ready"
    /\ pc' = "done"
    /\ res' = [op |-> "construct", betas |-> betas] @@ r
    /\ IF r.ok
       THEN /\ model_mean_type' = mean_type
            /\ model_var_type' = var_type
            /\ loss_type' = "MSE"
            /\ rescale_timesteps' = rescale
            /\ num_timesteps' = Len(betas)
            /\ tables' = [n \in TableNames |-> NDARRAY]
            /\ tensorized_for' = None
       ELSE UNCHANGED engine_vars
    /\ UNCHANGED <<ext, ts_vars, caller, gen>>

\* GaussianDiffusion(betas=betas, model_mean_type=..., model_var_type=...,
\* loss_type=..., rescale_timesteps=...)
ConstructCall(betas, mean_type, var_type, rescale) ==
    Constructed(betas, mean_type, var_type, rescale, GaussianDiffusionInit(betas))

Schedule ==
    \E schedule_name \in ScheduleNames, T \in 1..MaxScheduleT :
        ScheduleCall(schedule_name, T)

Construct ==
    \E betas \in BetaLists, mean_type \in MeanTypes,
       var_type \in {"LEARNED_RANGE", "FIXED_SMALL"}, rescale \in BOOLEAN :
        ConstructCall(betas, mean_type, var_type, rescale)

\* no engine exists yet
InitInit ==
    /\ model_mean_type = None
    /\ model_var_type = None
    /\ loss_type = None
    /\ num_timesteps = None
    /\ rescale_timesteps = None
    /\ tables = <<>>
    /\ tensorized_for = None
    /\ ext = NoCall
    /\ TsIdle
    /\ caller = NoCall
    /\ pc = "ready"
    /\ res = NoCall
    /\ gen = NoCall

NextInit == Schedule \/ Construct

SpecInit == InitInit /\ [][NextInit]_vars

----------------------------------------------------------------------------
(* Beta schedules and the constructor: properties *)

\* C12: get_named_beta_schedule fails with the unknown-schedule error for
\* every name other than 'linear' and 'cosine', and returns exactly
\* num_diffusion_timesteps betas for those two names (step counts T >= 1).
C12_UnknownNamesFail ==
    res.op = "schedule" =>
        IF res.name \in {"linear", "cosine"}
        THEN res.ok /\ Len(res.betas) = res.T
        ELSE ~ res.ok /\ res.exc = "NotImplementedError"

\* the cosine schedule was asked for with the largest step count, and an
\* unknown name would be the other case
C12_Witness ==
    /\ res.op = "schedule"
    /\ res.name = "cosine"
    /\ res.T = MaxScheduleT
    /\ Len(res.betas) = MaxScheduleT

\* C13: for every T >= 1 the linear schedule yields T betas, non-decreasing
\* from 0.1 / T to 20 / T, each in (0, 1]: it passes the constructor's
\* range assertion.
C13_LinearScheduleInRange ==
    (res.op = "schedule" /\ res.name = "linear") =>
        /\ Len(res.betas) = res.T
        /\ REq(res.betas[1], << 1, 10 * res.T >>)
        /\ REq(res.betas[res.T], << 200, 10 * res.T >>)
        /\ \A k \in 1..(res.T - 1) : RLeq(res.betas[k], res.betas[k + 1])
        /\ BetasInRange(res.betas)

\* The linear schedule is in range for one step and from twenty steps on,
\* and out of range in between.
C13_LinearInRangeFromTwentySteps ==
    (res.op = "schedule" /\ res.name = "linear") =>
        (BetasInRange(res.betas) <=> (res.T = 1 \/ res.T >= 20))

ConstructorReturned == res.op = "construct" /\ res.ok

\* C14: for every beta sequence the constructor accepts, alphas_cumprod is
\* strictly decreasing in the timestep index, with alphas_cumprod[0] < 1
\* and alphas_cumprod[T-1] > 0.
C14_AlphasCumprodStrictlyDecreasing ==
    ConstructorReturned =>
        LET ac == res.arrays["alphas_cumprod"] IN
        /\ RLess(ac[1], ROne)
        /\ RLess(RZero, ac[Len(ac)])
        /\ \A k \in 1..(Len(ac) - 1) : RLess(ac[k + 1], ac[k])

\* It is so when every beta is below 1, and non-increasing with
\* alphas_cumprod[0] < 1 in every case.
C14_DecreasingBelowOne ==
    ConstructorReturned =>
        LET ac == res.arrays["alphas_cumprod"] IN
        /\ RLess(ac[1], ROne)
        /\ \A k \in 1..(Len(ac) - 1) : RLeq(ac[k + 1], ac[k])
        /\ (\A k \in DOMAIN res.betas : RLess(res.betas[k], ROne)) =>
              /\ RLess(RZero, ac[Len(ac)])
              /\ \A k \in 1..(Len(ac) - 1) : RLess(ac[k + 1], ac[k])

\* C18: for every non-empty beta sequence with each beta in (0, 1] the
\* constructor succeeds and every derived table has exactly T entries, with
\* alphas_cumprod_prev[0] = 1.0, alphas_cumprod_next[T-1] = 0.0 and
\* posterior_log_variance_clipped[0] taken from posterior_variance[1].
C18_ConstructorSucceeds ==
    (res.op = "construct" /\ res.betas # <<>> /\ BetasInRange(res.betas)) =>
        /\ res.ok
        /\ \A n \in TableNames : Len(res.arrays[n]) = Len(res.betas)
        /\ res.arrays["alphas_cumprod_prev"][1] = ROne
        /\ res.arrays["alphas_cumprod_next"][Len(res.betas)] = RZero
        /\ res.arrays["posterior_log_variance_clipped"][1]
             = Term("log", res.arrays["posterior_variance"][2])

\* It does so for two betas and more, and raises IndexError for one.
C18_ConstructorNeedsTwoSteps ==
    (res.op = "construct" /\ res.betas # <<>> /\ BetasInRange(res.betas)) =>
        IF Len(res.betas) = 1
        THEN ~ res.ok /\ res.exc = "IndexError"
        ELSE /\ res.ok
             /\ num_timesteps = Len(res.betas)
             /\ \A n \in TableNames : Len(res.arrays[n]) = Len(res.betas)
             /\ res.arrays["alphas_cumprod_prev"][1] = ROne
             /\ res.arrays["alphas_cumprod_next"][Len(res.betas)] = RZero
             /\ res.arrays["posterior_log_variance_clipped"][1]
                  = Term("log", res.arrays["posterior_variance"][2])

----------------------------------------------------------------------------
(* Specification SpecPlms: a consumer of plms_sample_loop_progressive       *)

\* generator = diffusion.plms_sample_loop_progressive(model, shape, noise,
\* device=device, eta=eta, ddim_first_n=ddim_first_n,
\* ddim_last_n=ddim_last_n)
StartPlms(device, eta, ddim_first_n, ddim_last_n) ==
    /\ pc = "ready"
    /\ pc' = "consuming"
    /\ gen' = [NewGenerator("plms", device) EXCEPT !.eta = eta,
                                                   !.ddim_first_n = ddim_first_n,
                                                   !.ddim_last_n = ddim_last_n]
    /\ UNCHANGED <<engine_vars, ext, ts_vars, caller, res>>

InitPlms ==
    /\ ConstructedEngineUpTo(MaxPlmsT)
    /\ model_mean_type = "EPSILON"
    /\ rescale_timesteps = FALSE
    /\ ext = NoCall
    /\ TsIdle
    /\ caller \in Callers({TrainedModel}, LoopKwargs, {<<TRUE, None>>})
    /\ pc = "ready"
    /\ res = NoCall
    /\ gen = NoCall

NextPlms ==
    \/ \E device \in Devices, eta \in EtaValues,
          ddim_first_n \in {0, num_timesteps}, ddim_last_n \in {<<>>, <<2>>} :
          StartPlms(device, eta, ddim_first_n, ddim_last_n)
    \/ Consume

SpecPlms == InitPlms /\ [][NextPlms]_vars

----------------------------------------------------------------------------
(* plms_sample_loop_progressive: properties *)

\* the items the generator yielded before its final step
StepsBeforeFinal ==
    { k \in DOMAIN gen.yielded : gen.yielded[k].fn # "final" }

\* C15: with ddim_first_n = T (ddim_last_n unset) every step of
\* plms_sample_loop_progressive before the final one runs in DDIM fallback:
\* it makes one reverse-process evaluation (one model_step, so no
\* Runge-Kutta stage), and its eps_prime is the eps of that evaluation, not
\* a combination with the eps history.
C15_FallbackStepsAreDdim ==
    (gen.op = "generator" /\ gen.kind = "plms"
                          /\ gen.ddim_first_n = num_timesteps) =>
        /\ \A k \in StepsBeforeFinal :
              /\ Len(gen.yielded[k].out.stage_eps) = 1
              /\ gen.yielded[k].out.eps_prime = gen.yielded[k].out.stage_eps[1]
              /\ gen.yielded[k].out.eps = gen.yielded[k].out.stage_eps[1]
        /\ gen.state # "failed" =>
              gen.model_calls
                = Len(gen.yielded) * (IF GuidanceInactive THEN 1 ELSE 2)

\* a generator with ddim_first_n = T ran to its end through Runge-Kutta
\* steps and multistep steps alike
C15_Witness ==
    /\ gen.op = "generator"
    /\ gen.kind = "plms"
    /\ gen.ddim_first_n = num_timesteps
    /\ gen.state = "done"
    /\ \E k \in StepsBeforeFinal : gen.yielded[k].fn = "plms_steps"
    /\ \E k \in StepsBeforeFinal : gen.yielded[k].fn = "prk_double_step"

\* the generator of plms_sample_loop_progressive
PlmsGenerator == gen.op = "generator" /\ gen.kind = "plms"

\* the 'eps' of the steps before the final one that have returned, in order
EpsReturned ==
    [k \in 1..Cardinality(StepsBeforeFinal) |-> gen.yielded[k].out.eps]

\* the multistep steps that have returned
MultistepsReturned ==
    { k \in DOMAIN gen.yielded : gen.yielded[k].fn = "plms_steps" }

\* C21: in plms_sample_loop_progressive old_eps holds exactly 3 entries at
\* every plms_steps call, the 'eps' returned by the three preceding steps,
\* oldest first; after a multistep step the oldest entry is gone and the
\* eps of that step is the last entry.
C21_EpsHistoryIsRollingWindow ==
    PlmsGenerator =>
        /\ gen.old_eps
             = SubSeq(EpsReturned,
                      IF Len(EpsReturned) > 3 THEN Len(EpsReturned) - 2 ELSE 1,
                      Len(EpsReturned))
        /\ (gen.todo # <<>> /\ Head(gen.todo).fn = "plms_steps") =>
              Len(gen.old_eps) = 3

\* two multistep steps have returned and a third is about to be called
C21_Witness ==
    /\ PlmsGenerator
    /\ Cardinality(MultistepsReturned) >= 2
    /\ gen.state = "suspended"
    /\ Len(gen.old_eps) = 3

\* plms_sample_loop_progressive on T >= 7 timesteps without fallback options
PlmsPlain ==
    /\ PlmsGenerator
    /\ num_timesteps >= 7
    /\ gen.ddim_first_n = 0
    /\ gen.ddim_last_n = <<>>

AllAt(v) == [b \in 1..BatchSize |-> v]

\* the k-th item yielded is the step C26 states: three double steps from
\* T-1, T-3 and T-5, each two timesteps down, the multistep steps from
\* T-7, ..., 1, each one down, and the final result at 0, which is the mean
\* of p_mean_variance there
PlmsItemAsStated(k) ==
    LET T == num_timesteps
        item == gen.yielded[k]
    IN IF k <= 3
       THEN /\ item.fn = "prk_double_step"
            /\ item.t = AllAt(T - (2 * k - 1))
            /\ item.out.target = AllAt(T - (2 * k - 1) - 2)
       ELSE IF k <= T - 4
       THEN /\ item.fn = "plms_steps"
            /\ item.t = AllAt(T - 3 - k)
            /\ item.out.target = AllAt(T - 4 - k)
       ELSE /\ k = T - 3
            /\ item.fn = "final"
            /\ item.t = AllAt(0)
            /\ item.out.sample
                 = PMeanVariance(Eng, Self, caller.model, item.x, item.t,
                                 gen.device, caller.clip_denoised,
                                 caller.denoised_fn, caller.kw).out.mean

\* every step starts where the step before it arrived, and every timestep
\* used (start, middle of a double step, target) is an index of the tables
PlmsChained(k) ==
    LET item == gen.yielded[k] IN
    /\ k > 1 => item.t = gen.yielded[k - 1].out.target
    /\ \A b \in 1..BatchSize :
          /\ item.t[b] \in 0..(num_timesteps - 1)
          /\ item.fn # "final" =>
                item.out.target[b] \in 0..(num_timesteps - 1)
          /\ item.fn = "prk_double_step" =>
                item.t[b] - 1 \in 0..(num_timesteps - 1)

PlmsRunsAsStated ==
    /\ gen.state # "failed"
    /\ \A k \in DOMAIN gen.yielded : PlmsItemAsStated(k) /\ PlmsChained(k)
    /\ gen.state = "done" => Len(gen.yielded) = num_timesteps - 3

\* C26: for T >= 7 and no fallback options plms_sample_loop_progressive
\* yields exactly T-3 results: three double steps starting at T-1, T-3 and
\* T-5, the multistep steps starting at T-7, ..., 1, and one final
\* noise-free result, the mean of p_mean_variance at t = 0; every step
\* starts at the target of the step before, and every timestep index used
\* lies in 0..T-1.
C26_PlmsYieldsTMinus3 == PlmsPlain => PlmsRunsAsStated

\* on the engines with a learned variance it does
C26_LearnedVariancePlms ==
    (PlmsPlain /\ IsLearned(model_var_type)) => PlmsRunsAsStated

\* on the engines with a fixed variance the first next() raises
C26_FixedVariancePlmsYieldsNothing ==
    (PlmsPlain /\ ~ IsLearned(model_var_type)) =>
        /\ gen.yielded = <<>>
        /\ gen.state \in {"created", "failed"}

C26_LearnedVariancePlmsDone ==
    /\ PlmsPlain
    /\ IsLearned(model_var_type)
    /\ num_timesteps >= 8
    /\ gen.state = "done"

\* C22: when ddim_last_n is given, plms_sample_loop_progressive runs to
\* completion (on the engines and schedules on which it does without it:
\* learned variance, T >= 7): no step fails.
C22_LastNRunsToCompletion ==
    (/\ PlmsGenerator
     /\ gen.ddim_last_n # <<>>
     /\ IsLearned(model_var_type)
     /\ num_timesteps >= 7) => gen.state # "failed"

\* without ddim_last_n the sampler does run to completion on these engines
C22_WithoutLastNNoStepFails ==
    (/\ PlmsGenerator
     /\ gen.ddim_last_n = <<>>
     /\ IsLearned(model_var_type)
     /\ num_timesteps >= 7) => gen.state # "failed"

\* with ddim_last_n given, only the first ddim_first_n steps return, and the
\* step after them raises NameError
C22_LastNStopsAfterFirstN ==
    (PlmsGenerator /\ gen.ddim_last_n # <<>>) =>
        /\ \A k \in StepsBeforeFinal : k <= gen.ddim_first_n
        /\ (/\ gen.state = "failed"
            /\ IsLearned(model_var_type)
            /\ num_timesteps >= 7) => gen.exc = "NameError"

\* the step whose result the generator yielded last, before the final one
LastStep == gen.yielded[Len(gen.yielded)]

StepReturned ==
    /\ PlmsGenerator
    /\ gen.yielded # <<>>
    /\ LastStep.fn # "final"

\* ddim_fallback of the last step: step_counter counted the steps before it
LastStepFallback == Len(gen.yielded) - 1 < gen.ddim_first_n

\* old_eps when the last step was called: the eps of the (at most three)
\* steps before it
OldEpsBeforeLastStep ==
    SubSeq(EpsReturned,
           IF Len(gen.yielded) > 4 THEN Len(gen.yielded) - 3 ELSE 1,
           Len(gen.yielded) - 1)

\* the last step again, as the sampler called with eta and drawing noise
\* makes it
LastStepWith(eta, noise) ==
    SamplerStep(Eng, Self, caller, LastStep.fn, LastStep.x, LastStep.t,
                OldEpsBeforeLastStep, gen.device, LastStepFallback, eta, noise)

C27_PlainStepReturned ==
    /\ StepReturned
    /\ num_timesteps >= 8
    /\ gen.eta # 0
    /\ LastStep.fn = "plms_steps"
    /\ ~ LastStepFallback

\* eta does influence a prk_double_step step in fallback
C27_EtaInBootstrapStep ==
    /\ StepReturned
    /\ LastStep.fn = "prk_double_step"
    /\ LastStepFallback
    /\ \E eta \in EtaValues :
          LastStepWith(eta, LastStep.noise).out # LastStep.out

----------------------------------------------------------------------------
(* training_losses *)

\* LossType.is_vb
IsVb(lt) == lt = "KL" \/ lt = "RESCALED_KL"

\* LossType.is_mse: the disjunct "or LossType.RESCALED_MSE_V" is a member
\* of the enum, which is true of every loss type
IsMse(lt) ==
    \/ lt \in {"MSE", "RESCALED_MSE", "RESCALED_MSE_BALANCED"}
    \/ TRUE
    \/ lt = "RESCALED_MSE_SNR_PLUS_ONE"

\* A model that returns the noise tensor its caller passes to
\* training_losses, whatever its arguments
NoiseModel == 3

\* how many times the channels of x the output of the model has: the
\* noise has the shape of x, a trained model fits its engine
OutputChannels(model, var_type) ==
    IF model # NoiseModel /\ IsLearned(var_type) THEN 2 ELSE 1

\* model(x, ts, **kw) in training_losses
TrainingOutput(model, x, ts, kw, noise) ==
    IF model = NoiseModel
    THEN [b \in DOMAIN x |-> [m |-> noise[b], v |-> 0]]
    ELSE ModelCall(model, x, ts, kw)

\* the model calls p_mean_variance makes for _vb_terms_bpd
TrainingModelCalls(eng, model, x, t, kw, noise) ==
    IF model = NoiseModel
    THEN [i \in DOMAIN ModelCalls(eng, TrainedModel, x, t, kw) |->
            [ModelCalls(eng, TrainedModel, x, t, kw)[i]
                EXCEPT !.output = TrainingOutput(model, x, @, kw, noise)]]
    ELSE ModelCalls(eng, model, x, t, kw)

\* the only call a model lambda *args, r=frozen_out: r receives
FrozenCall(eng, t, frozen_out) ==
    << [kwargs |-> <<>>,
        t |-> ScaleTimesteps(eng.rescale_timesteps, eng.num_timesteps, t),
        output |-> frozen_out] >>

\* mean_flat((a - b) ** 2) for one batch element: 0 exactly when a = b,
\* else a positive float that the operands determine
SquaredError(a, b) == IF a = b THEN 0 ELSE 1 + ((a - b) % 7)

\* mean_flat(normal_kl(mean1, logvar1, mean2, logvar2)) / np.log(2.0)
NormalKl(mean1, logvar1, mean2, logvar2) ==
    IF mean1 = mean2 /\ logvar1 = logvar2 THEN 0
    ELSE 1 + ((mean1 + 3 * logvar1 + 5 * mean2 + 7 * (logvar2 % 1000)) % 11)

\* mean_flat(-discretized_gaussian_log_likelihood(x, means, log_scales))
\* / np.log(2.0): the negative logarithm of a probability
DecoderNll(x, means, log_variance) ==
    (x + 3 * means + 5 * (log_variance % 1000)) % 11

\* output = th.where((t == 0), decoder_nll, kl); q holds the gathers of
\* q_posterior_mean_variance, out the dict of p_mean_variance
VbOutput(x_start, x_t, t, q, out) ==
    [b \in DOMAIN t |->
        IF t[b] = 0
        THEN DecoderNll(x_start[b], out.mean[b], out.log_variance[b])
        ELSE NormalKl(q.vals[1][b] * x_start[b] + q.vals[2][b] * x_t[b],
                      q.vals[4][b], out.mean[b], out.log_variance[b])]

\* _vb_terms_bpd after q_posterior_mean_variance (q) and p_mean_variance (p)
VbTermsFrom(p, q, x_start, x_t, t) ==
    IF ~ p.ok THEN StepRaise(p.st, p.calls, p.exc)
    ELSE [st |-> p.st, ok |-> TRUE, exc |-> None, calls |-> p.calls,
          out |-> [output |-> VbOutput(x_start, x_t, t, q, p.out),
                   pred_xstart |-> p.out.pred_xstart]]

\* _vb_terms_bpd after the gathers q of q_posterior_mean_variance; mc holds
\* the calls p_mean_variance makes of the model it is passed, whose output
\* has channels times the channels of x_t
VbTermsAfterPosterior(eng, q, x_start, x_t, t, dev, clip_denoised, kw, mc, channels) ==
    IF ~ q.ok THEN StepRaise(q.st, <<>>, q.exc)
    ELSE IF IsLearned(eng.model_var_type) /\ channels # 2
         \* assert model_output.shape == (B, C * 2, *x.shape[2:])
    THEN StepRaise(q.st, CallsMade(mc), "AssertionError")
    ELSE VbTermsFrom(PmvAfterModel(eng, q.st, x_t, t, dev, clip_denoised, None,
                                   kw, mc),
                     q, x_start, x_t, t)

\* GaussianDiffusion._vb_terms_bpd(model, x_start, x_t, t, clip_denoised,
\* model_kwargs=kw)
VbTermsBpd(eng, st, x_start, x_t, t, dev, clip_denoised, kw, mc, channels) ==
    VbTermsAfterPosterior(eng, RunExtracts(st, QPosteriorPlan, dev, t),
                          x_start, x_t, t, dev, clip_denoised, kw, mc, channels)

\* the gathers of the mse term: recip_snrp1_clipped; those of
\* _predict_xstart_from_eps, then v_alpha and v_sigma; those of
\* _predict_xstart_from_eps; those of q_posterior_mean_variance, which the
\* dict of the targets calls for every mean type
MsePlan(lt) ==
    CASE lt = "RESCALED_MSE_SNR_PLUS_ONE" -> << Now("recip_snrp1_clipped") >>
      [] lt = "RESCALED_MSE_V" ->
            EpsPlan \o << Now("sqrt_alphas_cumprod"),
                          Now("sqrt_one_minus_alphas_cumprod") >>
      [] lt = "RESCALED_MSE_BALANCED" -> EpsPlan
      [] OTHER -> QPosteriorPlan

\* the target of the plain mse for one batch element
Target(mean_type, g, b, x_start, x_t, noise) ==
    CASE mean_type = "PREVIOUS_X" ->
            g.vals[1][b] * x_start[b] + g.vals[2][b] * x_t[b]
      [] mean_type = "START_X" -> x_start[b]
      [] mean_type = "EPSILON" -> noise[b]

\* terms["mse"] from the gathers g of the loss type; eps is the mean part
\* of the model output
MseTerm(eng, lt, g, x_start, x_t, noise, eps) ==
    [b \in DOMAIN x_t |->
        CASE lt = "RESCALED_MSE_SNR_PLUS_ONE" ->
               \* mean_flat(ratio_weights * mse_base), the weights positive
               IF noise[b] = eps[b] THEN 0
               ELSE 1 + ((g.vals[1][b] * SquaredError(noise[b], eps[b])) % 7)
          [] lt = "RESCALED_MSE_V" ->
               SquaredError(
                   g.vals[3][b] * noise[b] - g.vals[4][b] * x_start[b],
                   g.vals[3][b] * eps[b]
                     - g.vals[4][b] * Fit(g.vals[1][b] * x_t[b]
                                            - g.vals[2][b] * eps[b]))
          [] lt = "RESCALED_MSE_BALANCED" ->
               (SquaredError(noise[b], eps[b])
                 + SquaredError(x_start[b], Fit(g.vals[1][b] * x_t[b]
                                                  - g.vals[2][b] * eps[b])))
               \div 2
          [] OTHER ->
               SquaredError(Target(eng.model_mean_type, g, b, x_start, x_t,
                                   noise),
                            eps[b])]

\* terms["vb"] *= self.num_timesteps / self.vb_loss_ratio
RescalesVb(lt) ==
    lt \in {"RESCALED_MSE", "RESCALED_MSE_BALANCED", "RESCALED_MSE_SNR_PLUS_ONE"}

\* a * (num_timesteps / vb_loss_ratio), and a * num_timesteps: a float
\* that a and the number of timesteps determine, 0 when a is 0
Rescaled(a, T) == a * T

\* the returned terms of the mse family; vb is the result of
\* _vb_terms_bpd (learned variance) and g the gathers of the mse term
MseTerms(eng, lt, vb, g, call, x_start, x_t, noise, eps) ==
    IF ~ g.ok THEN StepRaise(g.st, <<call>>, g.exc)
    ELSE IF ~ IsLearned(eng.model_var_type)
    THEN [st |-> g.st, ok |-> TRUE, exc |-> None, calls |-> <<call>>,
          out |-> [mse |-> MseTerm(eng, lt, g, x_start, x_t, noise, eps),
                   loss |-> MseTerm(eng, lt, g, x_start, x_t, noise, eps)]]
    ELSE [st |-> g.st, ok |-> TRUE, exc |-> None, calls |-> <<call>>,
          out |-> [mse |-> MseTerm(eng, lt, g, x_start, x_t, noise, eps),
                   vb |-> [b \in DOMAIN x_t |->
                             IF RescalesVb(lt)
                             THEN Rescaled(vb.out.output[b], eng.num_timesteps)
                             ELSE vb.out.output[b]],
                   loss |-> [b \in DOMAIN x_t |->
                               MseTerm(eng, lt, g, x_start, x_t, noise, eps)[b]
                                 + (IF RescalesVb(lt)
                                    THEN Rescaled(vb.out.output[b],
                                                  eng.num_timesteps)
                                    ELSE vb.out.output[b])]]]

\* the mse family after the variational-bound term vb of a learned
\* variance (for a fixed variance vb is the state after q_sample)
MseAfterVb(eng, lt, vb, call, x_start, x_t, t, dev, noise, eps) ==
    IF ~ vb.ok THEN StepRaise(vb.st, <<call>>, vb.exc)
    ELSE MseTerms(eng, lt, vb, RunExtracts(vb.st, MsePlan(lt), dev, t), call,
                  x_start, x_t, noise, eps)

\* the mse family after model_output = model(x_t, ts, **model_kwargs),
\* whose output (out) has channels times the channels of x_t
MseAfterModel(eng, lt, st, call, out, channels, x_start, x_t, t, dev, noise) ==
    IF IsLearned(eng.model_var_type)
    THEN IF channels # 2
         \* assert model_output.shape == (B, C * 2, *x_t.shape[2:])
         THEN StepRaise(st, <<call>>, "AssertionError")
         ELSE MseAfterVb(eng, lt,
                         VbTermsBpd(eng, st, x_start, x_t, t, dev, FALSE,
                                    <<>>, FrozenCall(eng, t, out), 2),
                         call, x_start, x_t, t, dev, noise,
                         [b \in DOMAIN x_t |-> out[b].m])
    ELSE MseAfterVb(eng, lt, [st |-> st, ok |-> TRUE], call, x_start, x_t, t,
                    dev, noise, [b \in DOMAIN x_t |-> out[b].m])

\* the KL family from the result vb of _vb_terms_bpd
KlTerms(lt, vb, T) ==
    IF ~ vb.ok THEN vb
    ELSE [vb EXCEPT !.out =
            [loss |-> [b \in DOMAIN vb.out.output |->
                         IF lt = "RESCALED_KL"
                         THEN Rescaled(vb.out.output[b], T)
                         ELSE vb.out.output[b]]]]

\* training_losses after x_t = self.q_sample(x_start, t, noise=noise)
TrainingAfterQSample(eng, lt, q, model, x_start, t, dev, kw, noise) ==
    IF ~ q.ok THEN StepRaise(q.st, <<>>, q.exc)
    ELSE IF lt \in {"KL", "RESCALED_KL"}
    THEN KlTerms(lt,
                 VbTermsBpd(eng, q.st, x_start, q.out, t, dev, FALSE, kw,
                            TrainingModelCalls(eng, model, q.out, t, kw, noise),
                            OutputChannels(model, eng.model_var_type)),
                 eng.num_timesteps)
    ELSE IF IsMse(lt)
    THEN MseAfterModel(eng, lt, q.st,
                       [kwargs |-> kw,
                        t |-> ScaleTimesteps(eng.rescale_timesteps,
                                             eng.num_timesteps, t)],
                       TrainingOutput(model, q.out,
                                      ScaleTimesteps(eng.rescale_timesteps,
                                                     eng.num_timesteps, t),
                                      kw, noise),
                       OutputChannels(model, eng.model_var_type),
                       x_start, q.out, t, dev, noise)
    ELSE StepRaise(q.st, <<>>, "NotImplementedError")

\* GaussianDiffusion.training_losses(model, x_start, t, model_kwargs, noise)
\* for x_start and t on device dev.  The result holds the parameter cache
\* afterwards, the calls made of the model and the returned terms or the
\* exception.
TrainingLosses(eng, lt, st, model, x_start, t, dev, kw, noise) ==
    TrainingAfterQSample(eng, lt, QSample(st, x_start, t, dev, noise), model,
                         x_start, t, dev, kw, noise)

----------------------------------------------------------------------------
(* Specification SpecTrain: a caller of q_sample, then of training_losses  *)

TrainingLossesCall(t, dev, noise) ==
    LET r == TrainingLosses(Eng, loss_type, Self, caller.model, caller.x, t,
                            dev, caller.kw, noise)
    IN
    /\ pc = "ready"
    /\ tables' = r.st.tables
    /\ tensorized_for' = r.st.tensorized_for
    /\ pc' = "done"
    /\ res' = [op |-> "training_losses", t |-> t, dev |-> dev,
               noise |-> noise, kw |-> caller.kw, pre |-> Self, ok |-> r.ok,
               exc |-> r.exc, calls |-> r.calls, out |-> r.out]
    /\ UNCHANGED <<config_vars, ext, ts_vars, caller, gen>>

TrainingLossesStep ==
    \E t \in Batches(0..(num_timesteps - 1)), dev \in Devices,
       noise \in Batches(NoiseValues) :
        TrainingLossesCall(t, dev, noise)

InitTrain ==
    /\ ConstructedEngineOf(MaxT, LossTypes)
    /\ rescale_timesteps = FALSE
    /\ ext = NoCall
    /\ TsIdle
    /\ caller \in Callers({TrainedModel, NoiseModel}, {"y" :> 1},
                          {<<TRUE, None>>})
    /\ pc = "ready"
    /\ res = NoCall
    /\ gen = NoCall

NextTrain == QSampleStep \/ TrainingLossesStep

SpecTrain == InitTrain /\ [][NextTrain]_vars

----------------------------------------------------------------------------
(* training_losses: properties *)

\* training_losses was called with a model whose output is the noise
NoiseModelTrained ==
    /\ res.op = "training_losses"
    /\ loss_type = "MSE"
    /\ model_mean_type = "EPSILON"
    /\ caller.model = NoiseModel

\* C16: with loss type MSE and mean type EPSILON, when the output of the
\* model equals the noise passed to training_losses, the call returns and
\* the 'loss' it returns is 0 for every batch element (at every timestep
\* 0..T-1).
C16_LossIsZeroWhenModelReturnsNoise ==
    NoiseModelTrained =>
        /\ res.ok
        /\ \A b \in 1..BatchSize : res.out.loss[b] = 0

\* With a fixed variance, on an engine that is new or materialized for the
\* device of the call, the loss is 0 and the model is called once.
C16_FixedVarianceLossIsZero ==
    (/\ NoiseModelTrained
     /\ ~ IsLearned(model_var_type)
     /\ res.pre.tensorized_for \in {None, res.dev}
     /\ \A n \in TableNames : res.pre.tables[n] \in {NDARRAY, res.dev}) =>
        /\ res.ok
        /\ Len(res.calls) = 1
        /\ \A b \in 1..BatchSize : res.out.loss[b] = 0

\* On an engine materialized for another device, training_losses raises.
C16_OtherDeviceRaises ==
    (/\ res.op = "training_losses"
     /\ res.pre.tensorized_for \notin {None, res.dev}) =>
        /\ ~ res.ok
        /\ res.exc = "TypeError"
        /\ res.calls = <<>>

\* the loss types the documentation of LossType counts as MSE losses
MseLossTypes ==
    {"MSE", "RESCALED_MSE", "RESCALED_MSE_BALANCED", "RESCALED_MSE_V",
     "RESCALED_MSE_SNR_PLUS_ONE"}

\* C23: is_vb() and is_mse() partition the seven loss types: for the loss
\* type of an engine whose training_losses was called, is_mse() is true
\* exactly of the five MSE types, is_vb() exactly of KL and RESCALED_KL, and
\* not both are true.
C23_IsVbIsMsePartition ==
    res.op = "training_losses" =>
        /\ IsMse(loss_type) <=> loss_type \in MseLossTypes
        /\ IsVb(loss_type) <=> loss_type \in {"KL", "RESCALED_KL"}
        /\ ~ (IsMse(loss_type) /\ IsVb(loss_type))

\* is_vb() is true of KL and RESCALED_KL and of no other type, and every
\* type satisfies is_vb() or is_mse()
C23_IsVbExactAndCovered ==
    res.op = "training_losses" =>
        /\ IsVb(loss_type) <=> loss_type \in LossTypes \ MseLossTypes
        /\ IsVb(loss_type) \/ IsMse(loss_type)

\* is_mse() is true of the loss types KL and RESCALED_KL too
C23_IsMseOfKl ==
    /\ res.op = "training_losses"
    /\ loss_type \in {"KL", "RESCALED_KL"}
    /\ IsMse(loss_type)

----------------------------------------------------------------------------
(* calc_bpd_loop *)

\* the gathers of q_mean_variance
QMeanVariancePlan ==
    << Now("sqrt_alphas_cumprod"), Now("one_minus_alphas_cumprod_expr"),
       Now("log_one_minus_alphas_cumprod") >>

\* the return of _prior_bpd from the gathers q of q_mean_variance
PriorBpdFrom(q, x_start) ==
    IF ~ q.ok THEN StepRaise(q.st, <<>>, q.exc)
    ELSE [st |-> q.st, ok |-> TRUE, exc |-> None, calls |-> <<>>,
          out |-> [b \in DOMAIN x_start |->
                     NormalKl(q.vals[1][b] * x_start[b], q.vals[3][b], 0, 0)]]

\* GaussianDiffusion._prior_bpd(x_start): t = [T - 1] * batch_size
PriorBpd(eng, st, x_start, dev) ==
    PriorBpdFrom(RunExtracts(st, QMeanVariancePlan, dev,
                             [b \in DOMAIN x_start |-> eng.num_timesteps - 1]),
                 x_start)

\* indices = list(range(self.num_timesteps))[::-1]
BpdIndices(T) == [j \in 1..T |-> T - j]

\* the lists vb, xstart_mse and mse before the loop of calc_bpd_loop; acc
\* holds them beside the parameter cache and the model calls made
BpdStart(st) ==
    [st |-> st, ok |-> TRUE, exc |-> None, calls |-> <<>>, vb |-> <<>>,
     xstart_mse |-> <<>>, mse |-> <<>>]

BpdRaise(acc, st, calls, exc) ==
    [acc EXCEPT !.st = st, !.ok = FALSE, !.exc = exc, !.calls = @ \o calls]

\* the three appends of one pass of the loop, from the result v of
\* _vb_terms_bpd and the gathers e of _predict_eps_from_xstart
BpdAppend(acc, v, e, x_start, x_t, noise) ==
    IF ~ e.ok THEN BpdRaise(acc, e.st, v.calls, e.exc)
    ELSE [acc EXCEPT
            !.st = e.st,
            !.calls = @ \o v.calls,
            !.vb = Append(@, v.out.output),
            !.xstart_mse =
                Append(@, [b \in DOMAIN x_start |->
                             SquaredError(v.out.pred_xstart[b], x_start[b])]),
            !.mse =
                Append(@, [b \in DOMAIN x_start |->
                             SquaredError(Fit((e.vals[1][b] * x_t[b]
                                                 - v.out.pred_xstart[b])
                                                \div e.vals[2][b]),
                                          noise[b])])]

\* one pass after out = self._vb_terms_bpd(...)
BpdAfterVb(acc, v, x_start, x_t, t, dev, noise) ==
    IF ~ v.ok THEN BpdRaise(acc, v.st, v.calls, v.exc)
    ELSE BpdAppend(acc, v, RunExtracts(v.st, EpsPlan, dev, t), x_start, x_t,
                   noise)

\* one pass after x_t = self.q_sample(x_start=x_start, t=t_batch, noise=noise)
BpdAfterQSample(eng, acc, q, model, x_start, t, dev, clip_denoised, kw, noise) ==
    IF ~ q.ok THEN BpdRaise(acc, q.st, <<>>, q.exc)
    ELSE BpdAfterVb(acc,
                    VbTermsBpd(eng, q.st, x_start, q.out, t, dev, clip_denoised,
                               kw, ModelCalls(eng, model, q.out, t, kw),
                               OutputChannels(model, eng.model_var_type)),
                    x_start, q.out, t, dev, noise)

\* for t in indices: ...; the loop ends at the first exception.  noise is
\* the draw of th.randn_like(x_start), taken equal in every pass.
RECURSIVE BpdLoop(_, _, _, _, _, _, _, _, _)
BpdLoop(eng, acc, model, x_start, indices, dev, clip_denoised, kw, noise) ==
    IF indices = <<>> \/ ~ acc.ok THEN acc
    ELSE BpdLoop(eng,
                 BpdAfterQSample(eng, acc,
                                 QSample(acc.st, x_start,
                                         [b \in DOMAIN x_start |-> Head(indices)],
                                         dev, noise),
                                 model, x_start,
                                 [b \in DOMAIN x_start |-> Head(indices)],
                                 dev, clip_denoised, kw, noise),
                 model, x_start, Tail(indices), dev, clip_denoised, kw, noise)

\* vb.sum(dim=1) for the batch element b of the stacked columns
RECURSIVE SumColumns(_, _)
SumColumns(columns, b) ==
    IF columns = <<>> THEN 0
    ELSE Head(columns)[b] + SumColumns(Tail(columns), b)

\* the return of calc_bpd_loop from the lists of the loop and the result p
\* of _prior_bpd; th.stack(..., dim=1) makes of the j-th entry of a list
\* the j-th column
CalcBpdReturn(loop, p, x_start) ==
    IF ~ p.ok THEN StepRaise(p.st, loop.calls, p.exc)
    ELSE [st |-> p.st, ok |-> TRUE, exc |-> None, calls |-> loop.calls,
          out |-> [total_bpd |-> [b \in DOMAIN x_start |->
                                    SumColumns(loop.vb, b) + p.out[b]],
                   prior_bpd |-> p.out,
                   vb |-> loop.vb,
                   xstart_mse |-> loop.xstart_mse,
                   mse |-> loop.mse]]

\* calc_bpd_loop after its loop
CalcBpdAfterLoop(eng, loop, x_start, dev) ==
    IF ~ loop.ok THEN StepRaise(loop.st, loop.calls, loop.exc)
    ELSE CalcBpdReturn(loop, PriorBpd(eng, loop.st, x_start, dev), x_start)

\* GaussianDiffusion.calc_bpd_loop(model, x_start, clip_denoised,
\* model_kwargs) for x_start on device dev
CalcBpdLoop(eng, st, model, x_start, dev, clip_denoised, kw, noise) ==
    CalcBpdAfterLoop(eng,
                     BpdLoop(eng, BpdStart(st), model, x_start,
                             BpdIndices(eng.num_timesteps), dev, clip_denoised,
                             kw, noise),
                     x_start, dev)

----------------------------------------------------------------------------
(* Specification SpecBpd: a caller of q_sample, then of calc_bpd_loop      *)

CalcBpdLoopCall(dev, noise) ==
    LET r == CalcBpdLoop(Eng, Self, caller.model, caller.x, dev,
                         caller.clip_denoised, caller.kw, noise)
    IN
    /\ pc = "ready"
    /\ tables' = r.st.tables
    /\ tensorized_for' = r.st.tensorized_for
    /\ pc' = "done"
    /\ res' = [op |-> "calc_bpd_loop", dev |-> dev, noise |-> noise,
               kw |-> caller.kw, pre |-> Self, ok |-> r.ok, exc |-> r.exc,
               calls |-> r.calls, out |-> r.out]
    /\ UNCHANGED <<config_vars, ext, ts_vars, caller, gen>>

CalcBpdLoopStep ==
    \E dev \in Devices, noise \in Batches(NoiseValues) :
        CalcBpdLoopCall(dev, noise)

InitBpd ==
    /\ ConstructedEngineUpTo(MaxLoopT)
    /\ rescale_timesteps = FALSE
    /\ ext = NoCall
    /\ TsIdle
    /\ caller \in Callers({TrainedModel}, LoopKwargs,
                          {<<TRUE, None>>, <<FALSE, None>>})
    /\ pc = "ready"
    /\ res = NoCall
    /\ gen = NoCall

NextBpd == QSampleStep \/ CalcBpdLoopStep

SpecBpd == InitBpd /\ [][NextBpd]_vars

----------------------------------------------------------------------------
(* calc_bpd_loop: properties *)

\* calc_bpd_loop was called on an engine whose parameter cache was not on
\* another device
CalcBpdLoopCalled ==
    /\ res.op = "calc_bpd_loop"
    /\ res.pre.tensorized_for \in {None, res.dev}

\* the timesteps of the _vb_terms_bpd evaluations, in the order made: each
\* evaluation makes one model call, or two when guided
RECURSIVE VbTimesteps(_)
VbTimesteps(calls) ==
    IF calls = <<>> THEN <<>>
    ELSE IF Len(calls) >= 2 /\ calls[1].t = calls[2].t
    THEN <<calls[1].t>> \o VbTimesteps(Tail(Tail(calls)))
    ELSE <<calls[1].t>> \o VbTimesteps(Tail(calls))

\* the result of calc_bpd_loop has the shape and the sum C24 states
BpdResultOverTimesteps ==
    /\ res.ok
    /\ VbTimesteps(res.calls)
         = [j \in 1..num_timesteps |->
              [b \in 1..BatchSize |-> num_timesteps - j]]
    /\ Len(res.out.vb) = num_timesteps
    /\ Len(res.out.xstart_mse) = num_timesteps
    /\ Len(res.out.mse) = num_timesteps
    /\ \A b \in 1..BatchSize :
          res.out.total_bpd[b]
            = SumColumns(res.out.vb, b) + res.out.prior_bpd[b]

\* C24: for an engine with T timesteps calc_bpd_loop evaluates the VB term
\* once per timestep, in the order T-1, ..., 0, and returns vb, xstart_mse
\* and mse with T columns each (column j being the term of timestep T-1-j)
\* and total_bpd = the sum of the T columns of vb + prior_bpd.
C24_BpdOverAllTimesteps == CalcBpdLoopCalled => BpdResultOverTimesteps

\* on the engines with a learned variance it does
C24_LearnedVarianceBpd ==
    (CalcBpdLoopCalled /\ IsLearned(model_var_type)) => BpdResultOverTimesteps

\* on the engines with a fixed variance the first evaluation raises
C24_FixedVarianceRaises ==
    (CalcBpdLoopCalled /\ ~ IsLearned(model_var_type)) =>
        /\ ~ res.ok
        /\ Len(VbTimesteps(res.calls)) <= 1

C24_FixedVarianceCalled ==
    CalcBpdLoopCalled /\ ~ IsLearned(model_var_type) /\ num_timesteps >= 2

C24_LearnedVarianceReturned ==
    /\ CalcBpdLoopCalled
    /\ IsLearned(model_var_type)
    /\ num_timesteps >= 2
    /\ res.ok

----------------------------------------------------------------------------
(* Specification SpecRace: two callers of _extract_into_tensor on one      *)
(* engine, without a lock.  A step is what a caller does between two       *)
(* reads or writes of self.                                                *)

Threads == {"A", "B"}

\* a caller outside _extract_into_tensor
IdleFrame ==
    [at |-> "idle", arr |-> NoCall, dev |-> None, ts |-> <<>>, todo |-> <<>>,
     ok |-> TRUE, exc |-> None, res_dev |-> None, val |-> <<>>]

\* overlapped: a call began while the other caller was inside a call;
\* devices: the devices of the calls so far
RaceIdle ==
    [op |-> "race", frames |-> [i \in Threads |-> IdleFrame],
     overlapped |-> FALSE, devices |-> {}]

InCall(f) == f.at \notin {"idle", "returned", "raised"}

Moved(i, f) == [ext EXCEPT !.frames[i] = f]

\* the frame after the indexing or conversion r of the captured array
Outcome(f, r, at) ==
    IF r.ok THEN [f EXCEPT !.at = at, !.res_dev = r.dev, !.val = r.val]
    ELSE [f EXCEPT !.at = "raised", !.ok = FALSE, !.exc = r.exc]

\* self._extract_into_tensor(self.<n>, timesteps, shape): the attribute is
\* read when the arguments are evaluated
ExtractEnter(i, n, dev, ts) ==
    /\ ext.frames[i].at = "idle"
    /\ ext' = [ext EXCEPT
                 !.frames[i] = [IdleFrame EXCEPT !.at = "entered",
                                                 !.arr = Arr(n, tables[n]),
                                                 !.dev = dev, !.ts = ts],
                 !.overlapped = @ \/ \E j \in Threads \ {i} :
                                        InCall(ext.frames[j]),
                 !.devices = @ \cup {dev}]
    /\ UNCHANGED <<engine_vars, ts_vars, call_vars>>

\* if self.is_tensorized(timesteps.device):
ExtractCheck(i) ==
    /\ ext.frames[i].at = "entered"
    /\ ext' = Moved(i, [ext.frames[i] EXCEPT
                          !.at = IF IsTensorized(Self, ext.frames[i].dev)
                                 THEN "index" ELSE "from_numpy"])
    /\ UNCHANGED <<engine_vars, ts_vars, call_vars>>

\* res = arr[timesteps], and the return of the call
ExtractIndex(i) ==
    /\ ext.frames[i].at = "index"
    /\ ext' = Moved(i, Outcome(ext.frames[i],
                               ExtractIntoTensor(
                                   EngineState(tables, ext.frames[i].dev),
                                   ext.frames[i].arr, ext.frames[i].dev,
                                   ext.frames[i].ts),
                               "returned"))
    /\ UNCHANGED <<engine_vars, ts_vars, call_vars>>

\* res = th.from_numpy(arr).float().to(device=timesteps.device)[timesteps]
ExtractFromNumpy(i) ==
    /\ ext.frames[i].at = "from_numpy"
    /\ ext' = Moved(i, Outcome(ext.frames[i],
                               ExtractIntoTensor(
                                   EngineState(tables, None),
                                   ext.frames[i].arr, ext.frames[i].dev,
                                   ext.frames[i].ts),
                               "tensorize"))
    /\ UNCHANGED <<engine_vars, ts_vars, call_vars>>

\* tensorize: arrays = {name: getattr(self, name) for name in vars(self)
\* if isinstance(getattr(self, name), np.ndarray)}
TensorizeSnapshot(i) ==
    /\ ext.frames[i].at = "tensorize"
    /\ ext' = Moved(i, [ext.frames[i] EXCEPT
                          !.at = "setattr",
                          !.todo = SelectSeq(TableSeq,
                                             LAMBDA n : tables[n] = NDARRAY)])
    /\ UNCHANGED <<engine_vars, ts_vars, call_vars>>

\* how many iterations of the loop of tensorize run up to and including
\* the next attribute that a caller of this specification reads
RECURSIVE Stretch(_)
Stretch(todo) ==
    IF todo = <<>> THEN 0
    ELSE IF Head(todo) \in ExtractedNames THEN 1
    ELSE 1 + Stretch(Tail(todo))

\* setattr(self, name, th.from_numpy(arr).to(device=device, dtype=th.float))
\* for the next names of arrays: the callers are switched only after
\* an attribute that one of them reads has been written
TensorizeSetattr(i) ==
    /\ ext.frames[i].at = "setattr"
    /\ ext.frames[i].todo # <<>>
    /\ tables' = [n \in TableNames |->
                    IF \E k \in 1..Stretch(ext.frames[i].todo) :
                          ext.frames[i].todo[k] = n
                    THEN ext.frames[i].dev ELSE tables[n]]
    /\ ext' = Moved(i, [ext.frames[i] EXCEPT
                          !.todo = SubSeq(@, Stretch(@) + 1, Len(@))])
    /\ UNCHANGED <<config_vars, tensorized_for, ts_vars, call_vars>>

\* self.tensorized_for = device, and the return of the call
TensorizeFinish(i) ==
    /\ ext.frames[i].at = "setattr"
    /\ ext.frames[i].todo = <<>>
    /\ tensorized_for' = ext.frames[i].dev
    /\ ext' = Moved(i, [ext.frames[i] EXCEPT !.at = "returned"])
    /\ UNCHANGED <<config_vars, tables, ts_vars, call_vars>>

InitRace ==
    /\ ConstructedEngine
    /\ model_mean_type = "EPSILON"
    /\ model_var_type = "LEARNED_RANGE"
    /\ rescale_timesteps = FALSE
    /\ ext = RaceIdle
    /\ TsIdle
    /\ CallIdle

NextRace ==
    \E i \in Threads :
        \/ \E n \in ExtractedNames, dev \in Devices, t \in 0..(num_timesteps - 1) :
                ExtractEnter(i, n, dev, [b \in 1..BatchSize |-> t])
        \/ ExtractCheck(i)
        \/ ExtractIndex(i)
        \/ ExtractFromNumpy(i)
        \/ TensorizeSnapshot(i)
        \/ TensorizeSetattr(i)
        \/ TensorizeFinish(i)

SpecRace == InitRace /\ [][NextRace]_vars

----------------------------------------------------------------------------
(* _extract_into_tensor without a lock: properties *)

\* C17: two callers interleaving _extract_into_tensor calls on one engine
\* (on the same device or on two devices) never reach a failure: no call
\* raises, a call that returned has returned the values a sequential run
\* gathers, on its device, and when both have returned every table is
\* materialized for the device written last, tensorized_for.
C17_InterleavedExtractsNeverFail ==
    /\ \A i \in Threads :
          /\ ext.frames[i].at # "raised"
          /\ ext.frames[i].at = "returned" =>
                /\ ext.frames[i].val
                     = Gather(ext.frames[i].arr, ext.frames[i].ts)
                /\ ext.frames[i].res_dev = ext.frames[i].dev
    /\ (\A i \in Threads : ext.frames[i].at = "returned") =>
          \A n \in TableNames : tables[n] = tensorized_for

\* Two calls on the same device that do not overlap do not fail.
C17_SequentialSameDeviceReturns ==
    (~ ext.overlapped /\ Cardinality(ext.devices) <= 1) =>
        \A i \in Threads : ext.frames[i].at # "raised"

\* a state that two overlapping calls on the same device reach: one raised
C17_SameDeviceRace ==
    /\ ext.overlapped
    /\ Cardinality(ext.devices) = 1
    /\ \E i \in Threads : ext.frames[i].at = "raised"

====
